---- MODULE Spec2Model ----
(***************************************************************************)
(* Atlas Value-Yield scoring (packages/atlas-python): the prior/posterior  *)
(* blender of the score command and the posterior pipeline (fit, predict,  *)
(* ECDF calibration).                                                      *)
(*                                                                         *)
(* Numbers.  Scores and weights are exact rationals.  In the blender every *)
(* score is an integer count of 1/Unit (Unit = 40: 3.2 is 128, 3.35 is     *)
(* 134) and every weight a count of 1/WeightDen (halves); the inputs are   *)
(* multiples of 4/Unit, so that every product the code forms is again an   *)
(* integer count of 1/Unit.  NaN (a missing cell of a data frame) and None *)
(* (an absent optional argument or table) are integers outside the range   *)
(* of every number of the model.                                           *)
(***************************************************************************)
EXTENDS Integers, Sequences, FiniteSets, TLC

VARIABLES
    pc,             \* position of the modelled run
    prior,          \* _blend_scores: the prior table (None when absent)
    posterior,      \* _blend_scores: the posterior table (None when absent)
    lambda_weight,  \* the composite weight, halves, or None
    omega,          \* the requested mixing weight, halves
    output,         \* the table _blend_scores returned (None before the call)
    observations,   \* the observations table this run loads
    window_column,  \* the window column this run asks for (None: one corpus window)
    solution,       \* what the GLM and linear solvers return on this run's data
    min_samples_glm,    \* PosteriorPipeline.min_samples_glm
    ecdf_cache_path,    \* the cache path this run passes to fit ("None": none)
    cache_file,         \* the ECDF reference the file at that path holds, if any
    feature_columns_,   \* PosteriorPipeline fields, None until a fit sets them
    feature_stats_,
    window_column_,
    ecdf_reference_,
    store_summary_,
    yield_model_,
    value_model_,
    trace_records_,
    call,           \* the last call on the pipeline: name, arguments, error raised
    predictions,    \* the table the last call returned (a successful predict), else none
    scoring_call,   \* a call of a function of scoring/prior.py: name and arguments
    scoring_result, \* what that call returned or raised (none before it ran)
    args,           \* the Namespace the score command is run with
    datasets,       \* what the files and stages of that run hold and return
    effects,        \* what _handle_score has done so far, in order
    cli_error,      \* the error _handle_score raised
    specs,          \* build_subcluster_hierarchy: the specifications passed
    hierarchy       \* what build_subcluster_hierarchy returned or raised

blendVars == <<prior, posterior, lambda_weight, omega, output>>
fittedVars == <<feature_columns_, feature_stats_, window_column_, ecdf_reference_,
                store_summary_, yield_model_, value_model_>>
pipelineVars == <<observations, window_column, solution, min_samples_glm,
                  ecdf_cache_path, cache_file, fittedVars, trace_records_, call,
                  predictions>>
scoringVars == <<scoring_call, scoring_result>>
cliVars == <<args, datasets, effects, cli_error>>
clusterVars == <<specs, hierarchy>>
vars == <<pc, blendVars, pipelineVars, scoringVars, cliVars, clusterVars>>

\* ------------------------------------------------------------------ bounds
MaxStores == 2
MaxObs == 3
MaxFrame == 3

StoreIds == 1..MaxStores

\* ----------------------------------------------------------------- numbers
NaN == 0 - 1000000
None == 0 - 2000000

Unit == 4 * 10
WeightDen == 1 + 1
ONE == WeightDen

notna(x) == x # NaN

Min2(a, b) == IF b < a THEN b ELSE a
Max2(a, b) == IF b > a THEN b ELSE a

\* prior.py clamp_score: max(lower, min(upper, score)) with lower 1.0, upper 5.0
clamp_score_noupper(score) == Max2(1 * Unit, score)
clamp_score(score) == Max2(1 * Unit, Min2(5 * Unit, score))

\* w * x for a weight w (a count of 1/WeightDen) and a score x
WMul(w, x) == (w * x) \div WeightDen


\* --------------------------------------------------------------- rationals
\* The posterior pipeline divides (means, inverse-distance weights, ranks), so
\* its numbers are exact fractions <<numerator, denominator>> in lowest terms.
RECURSIVE GCD(_, _)
GCD(a, b) == IF b = 0 THEN a ELSE GCD(b, a % b)
Abs(x) == IF x < 0 THEN 0 - x ELSE x
Rat(n, d) ==
    LET g == GCD(Abs(n), Abs(d))
    IN  IF d < 0 THEN <<(0 - n) \div g, (0 - d) \div g>> ELSE <<n \div g, d \div g>>
RInt(n) == <<n, 1>>
RAdd(a, b) == Rat(a[1] * b[2] + b[1] * a[2], a[2] * b[2])
RSub(a, b) == Rat(a[1] * b[2] - b[1] * a[2], a[2] * b[2])
RMul(a, b) == Rat(a[1] * b[1], a[2] * b[2])
RDiv(a, b) == Rat(a[1] * b[2], a[2] * b[1])
RLe(a, b) == a[1] * b[2] <= b[1] * a[2]
RLt(a, b) == a[1] * b[2] < b[1] * a[2]
RMax(a, b) == IF RLt(a, b) THEN b ELSE a
RMin(a, b) == IF RLt(b, a) THEN b ELSE a
\* np.clip(x, lo, hi)
RClip(x, lo, hi) == RMin(RMax(x, lo), hi)

RECURSIVE SeqSum(_)
SeqSum(q) == IF q = << >> THEN RInt(0) ELSE RAdd(Head(q), SeqSum(Tail(q)))

\* ------------------------------------------------------- trace records
\* trace.py 63-84: the record with the schema version set by __post_init__
TRACE_SCHEMA_VERSION == "v1"
SectionNames == <<"metadata", "baseline", "affluence", "adjacency", "observations",
                  "model", "scores">>
TraceRecord_unversioned(store_id, stage, metadata, baseline, affluence, adjacency, observed, model, scores) ==
    [store_id |-> store_id, stage |-> stage, metadata |-> metadata,
     baseline |-> baseline, affluence |-> affluence, adjacency |-> adjacency,
     observations |-> observed, model |-> model, scores |-> scores]
TraceRecord(store_id, stage, metadata, baseline, affluence, adjacency, observed, model, scores) ==
    [store_id |-> store_id, stage |-> stage,
     metadata |-> IF "schema_version" \in DOMAIN metadata THEN metadata
                  ELSE [k \in DOMAIN metadata \cup {"schema_version"} |->
                            IF k \in DOMAIN metadata THEN metadata[k]
                            ELSE TRACE_SCHEMA_VERSION],
     baseline |-> baseline, affluence |-> affluence, adjacency |-> adjacency,
     observations |-> observed, model |-> model, scores |-> scores]

\* trace.py 86-107: TraceRecord.to_dict
FlatKey(section_name, key) == section_name \o "." \o key
\* the items of one section under their dotted keys
RECURSIVE FlattenSection(_, _, _)
FlattenSection(section_name, section, keys) ==
    IF keys = {} THEN << >>
    ELSE LET key == CHOOSE key \in keys : TRUE
         IN  FlattenSection(section_name, section, keys \ {key})
                @@ (FlatKey(section_name, key) :> section[key])
\* the loop over the sections from the n-th on, skipping the empty ones; a
\* later assignment to a key replaces an earlier one
RECURSIVE FlattenSections(_, _)
FlattenSections(record, n) ==
    IF n > Len(SectionNames) THEN << >>
    ELSE LET section == record[SectionNames[n]]
         IN  FlattenSections(record, n + 1)
                @@ (IF DOMAIN section = {} THEN << >>
                    ELSE FlattenSection(SectionNames[n], section, DOMAIN section))
to_dict(record) ==
    FlattenSections(record, 1) @@ [store_id |-> record.store_id, stage |-> record.stage]

\* ----------------------------------------------------------------- blender
\* The cells the input tables may hold.  3.2/3.5 are the spec's mixing
\* scenario; 6.0 lies outside [1,5] (the blender validates nothing).
PriorValues == {NaN, 128}
PriorYields == {NaN, 80}
PriorComposites == {NaN, 104}
PosteriorValues == {NaN, 140, 240}
PosteriorYields == {NaN, 180}

PriorRows == [Value : PriorValues, Yield : PriorYields, Composite : PriorComposites]
PosteriorRows == [Value : PosteriorValues, Yield : PosteriorYields]

\* A table argument: none = TRUE is Python's None, otherwise rows maps the
\* StoreId of each row to its cells (StoreId is unique in both tables).
NoTable == [none |-> TRUE, rows |-> << >>]
Tables(Rows) == {[none |-> FALSE, rows |-> r] :
                    r \in UNION {[ids -> Rows] : ids \in SUBSET StoreIds}}

Omegas == 0..WeightDen
Lambdas == {None} \cup (1..WeightDen)

\* pd.merge(prior, posterior, on="StoreId", how="outer") and the NaN columns
\* added for what is missing (__main__.py 619-640)
Ids(table) == IF table.none THEN {} ELSE DOMAIN table.rows
Cell(table, id, column) == IF id \in Ids(table) THEN table.rows[id][column] ELSE NaN
merged(pr, po) ==
    [id \in Ids(pr) \cup Ids(po) |->
        [ValuePrior |-> Cell(pr, id, "Value"),
         YieldPrior |-> Cell(pr, id, "Yield"),
         CompositePrior |-> Cell(pr, id, "Composite"),
         ValuePosterior |-> Cell(po, id, "Value"),
         YieldPosterior |-> Cell(po, id, "Yield")]]

has_prior(m) == notna(m.ValuePrior) \/ notna(m.YieldPrior)
has_posterior(m) == notna(m.ValuePosterior) \/ notna(m.YieldPosterior)

\* __main__.py 650-653
OmegaOf_requested(m, w) == IF has_prior(m) \/ has_posterior(m) THEN w ELSE NaN
OmegaOf(m, w) ==
    IF has_prior(m) /\ has_posterior(m) THEN w
    ELSE IF has_prior(m) THEN 0
    ELSE IF has_posterior(m) THEN ONE
    ELSE NaN

\* __main__.py 655-679, one field: both present -> mix, one present -> verbatim
Mix_swapped(p, q, w) ==
    IF notna(p) /\ notna(q) THEN WMul(w, p) + WMul(ONE - w, q)
    ELSE IF notna(p) THEN p
    ELSE IF notna(q) THEN q
    ELSE NaN
Mix_unnormalised(p, q, w) ==
    IF notna(p) /\ notna(q) THEN p + WMul(w, q)
    ELSE IF notna(p) THEN p
    ELSE IF notna(q) THEN q
    ELSE NaN
Mix(p, q, w) ==
    IF notna(p) /\ notna(q) THEN WMul(ONE - w, p) + WMul(w, q)
    ELSE IF notna(p) THEN p
    ELSE IF notna(q) THEN q
    ELSE NaN

\* __main__.py 681-693
CompositeOf(value, yield, compositePrior, lam) ==
    IF lam # None
    THEN IF notna(value) /\ notna(yield)
         THEN clamp_score(WMul(lam, value) + WMul(ONE - lam, yield))
         ELSE NaN
    ELSE compositePrior

BlendRow(m, lam, w) ==
    LET value == Mix(m.ValuePrior, m.ValuePosterior, w)
        yield == Mix(m.YieldPrior, m.YieldPosterior, w)
    IN  [ValuePrior |-> m.ValuePrior, YieldPrior |-> m.YieldPrior,
         CompositePrior |-> m.CompositePrior,
         ValuePosterior |-> m.ValuePosterior, YieldPosterior |-> m.YieldPosterior,
         Omega |-> OmegaOf(m, w),
         Value |-> value, Yield |-> yield,
         Composite |-> CompositeOf(value, yield, m.CompositePrior, lam)]

\* __main__.py 610-695
_blend_scores(pr, po, lam, w) ==
    IF pr.none /\ po.none THEN NoTable
    ELSE LET mg == merged(pr, po)
         IN  [none |-> FALSE, rows |-> [id \in DOMAIN mg |-> BlendRow(mg[id], lam, w)]]

\* __main__.py 733-741: None and NaN become None, a number stays
_to_optional_float(value) == IF value = None \/ value = NaN THEN None ELSE value

\* __main__.py 698-730: one flattened blend-stage row per row of the blended
\* frame, none when there is no frame or it has no rows
BlendTraceRecord(id, row, lam) ==
    TraceRecord(
        ToString(id), "blend", << >>, << >>, << >>, << >>,
        [omega |-> _to_optional_float(row.Omega)],
        [lambda_weight |-> lam],
        [value_prior |-> _to_optional_float(row.ValuePrior),
         value_posterior |-> _to_optional_float(row.ValuePosterior),
         value_final |-> _to_optional_float(row.Value),
         yield_prior |-> _to_optional_float(row.YieldPrior),
         yield_posterior |-> _to_optional_float(row.YieldPosterior),
         yield_final |-> _to_optional_float(row.Yield),
         composite_prior |-> _to_optional_float(row.CompositePrior),
         composite_final |-> _to_optional_float(row.Composite)])
_build_blend_trace_records(frame, lam) ==
    IF frame.none \/ DOMAIN frame.rows = {} THEN << >>
    ELSE [id \in DOMAIN frame.rows |-> to_dict(BlendTraceRecord(id, frame.rows[id], lam))]

\* ------------------------------------------------------ posterior: inputs
\* Stores tables: the optional columns the table carries and its rows in
\* order (StoreId, Latitude and Longitude are required columns).  Coordinates
\* are counts of 1e-6 degrees, so that the 1e-6 the smoother adds to every
\* distance is one unit and every distance of the model is a whole number.
NoMetro == "nan"
DEFAULT_WINDOW == "corpus"
StoreRow(id, lat, lon, x, metro) ==
    [StoreId |-> id, Latitude |-> lat, Longitude |-> lon, X |-> x, Metro |-> metro]
StoresFull ==
    [columns |-> {"X", "Metro"},
     rows |-> <<StoreRow(1, 0, 0, 0, "A"), StoreRow(2, 2, 0, 1, "B"),
                StoreRow(3, 0, 0, 1, "C")>>]
\* other order, coordinates and features, and no window column
StoresMoved ==
    [columns |-> {"X"},
     rows |-> <<StoreRow(3, 3, 0, 0, NoMetro), StoreRow(1, 0, 4, 1, NoMetro)>>]
\* no feature column; a window the observations never carry and a missing one
StoresBare ==
    [columns |-> {"Metro"},
     rows |-> <<StoreRow(2, 0, 0, 0, "D"), StoreRow(3, 2, 0, 0, NoMetro)>>]
StoresTables == {StoresFull, StoresMoved, StoresBare}
\* a single store that no observation mentions, scored after a fit on another
\* stores table
StoresLone ==
    [columns |-> {"X", "Metro"}, rows |-> <<StoreRow(2, 1, 1, 0, "A")>>]

\* Observations: every visit lasts 45 minutes (theta = items), is rated 2 when
\* nothing was bought and 5 otherwise, and carries the Metro of its store.
ObsRow(id, items) ==
    [StoreId |-> id, DwellMin |-> 45, PurchasedItems |-> items,
     HaulLikert |-> IF items = 0 THEN 2 ELSE 5,
     Metro |-> CASE id = 1 -> "A" [] id = 2 -> "B" [] OTHER -> "C"]
ObsKinds == <<ObsRow(1, 0), ObsRow(1, 3), ObsRow(3, 0)>>
ObservationTables ==
    {[i \in DOMAIN q |-> ObsKinds[q[i]]] :
        q \in {q \in UNION {[1..n -> DOMAIN ObsKinds] : n \in 0..MaxObs} :
                \A i \in DOMAIN q : \A j \in DOMAIN q : i < j => q[i] <= q[j]}}

\* What the solvers return.  The coefficient vectors are reals the model does
\* not compute; it keeps what predict reads of them: per design row the
\* prediction and its standard error, for a design with the feature X
\* (indexed by X + 1) and for an intercept-only design.  The GLM predicts
\* exp(eta) > 0, the linear model any real (here also below 1 and above 5).
Solutions ==
    {[irls |-> "singular", alpha |-> 0,
      yield |-> [by_x |-> <<0, 0>>, se_by_x |-> <<0, 0>>,
                 intercept |-> 0, se_intercept |-> 0],
      ridge |-> [by_x |-> <<1, 2>>, se_by_x |-> <<0, 1>>,
                 intercept |-> 2, se_intercept |-> 1],
      value |-> [by_x |-> <<3, 7>>, se_by_x |-> <<0, 1>>,
                 intercept |-> 4, se_intercept |-> 0]],
     [irls |-> "converged", alpha |-> 1,
      yield |-> [by_x |-> <<4, 1>>, se_by_x |-> <<1, 1>>,
                 intercept |-> 1, se_intercept |-> 0],
      ridge |-> [by_x |-> <<2, 1>>, se_by_x |-> <<1, 0>>,
                 intercept |-> 3, se_intercept |-> 1],
      value |-> [by_x |-> <<0 - 1, 2>>, se_by_x |-> <<1, 0>>,
                 intercept |-> 6, se_intercept |-> 1]],
     [irls |-> "diverged", alpha |-> 1,
      yield |-> [by_x |-> <<4, 1>>, se_by_x |-> <<1, 1>>,
                 intercept |-> 1, se_intercept |-> 0],
      ridge |-> [by_x |-> <<2, 1>>, se_by_x |-> <<1, 0>>,
                 intercept |-> 3, se_intercept |-> 1],
      value |-> [by_x |-> <<3, 7>>, se_by_x |-> <<0, 1>>,
                 intercept |-> 4, se_intercept |-> 0]]}

Unset == [none |-> TRUE]
NoError == [type |-> "none", message |-> ""]
Error(type, message) == [type |-> type, message |-> message]

\* ------------------------------------------------------- posterior: fit
ObsTheta(o) == Rat(o.PurchasedItems * 45, o.DwellMin)

RECURSIVE SetToSeq(_)
SetToSeq(S) ==
    IF S = {} THEN << >>
    ELSE LET x == CHOOSE x \in S : TRUE IN <<x>> \o SetToSeq(S \ {x})
SumOver(S, F(_)) == LET q == SetToSeq(S) IN SeqSum([i \in DOMAIN q |-> F(q[i])])
Mean(S, F(_)) == RDiv(SumOver(S, F), RInt(Cardinality(S)))

\* posterior.py 203-224: one row per observed store
_summarise_observations(obs) ==
    [id \in {obs[i].StoreId : i \in DOMAIN obs} |->
        LET mine == {i \in DOMAIN obs : obs[i].StoreId = id}
        IN  [visits |-> Cardinality(mine),
             dwell_total |-> SumOver(mine, LAMBDA i : RInt(obs[i].DwellMin)),
             items_total |-> SumOver(mine, LAMBDA i : RInt(obs[i].PurchasedItems)),
             value_mean |-> Mean(mine, LAMBDA i : RInt(obs[i].HaulLikert)),
             theta_mean |-> Mean(mine, LAMBDA i : ObsTheta(obs[i]))]]

\* posterior.py 174-200: the columns standardised and their (mean, variance);
\* the standard deviation is the root of the variance, or 1 when that is 0
AutoColumns(st) == st.columns \cap {"X"}
_prepare_features(st, columns) ==
    [columns |-> columns,
     stats |-> [c \in columns |->
        LET n == Len(st.rows)
            mean == Mean(DOMAIN st.rows, LAMBDA i : RInt(st.rows[i][c]))
            meansq == Mean(DOMAIN st.rows, LAMBDA i : RInt(st.rows[i][c] * st.rows[i][c]))
        IN  [mean |-> mean, variance |-> RSub(meansq, RMul(mean, mean))]]]

\* posterior.py 241-261: rows sorted by window, then theta, with the rank of
\* each row in its window, the window's count and (rank - 0.5) / count.
\* str orders the window names used here as A < B < C < D < corpus < nan.
WindowRank(w) ==
    CASE w = "A" -> 1 [] w = "B" -> 2 [] w = "C" -> 3 [] w = "D" -> 4
      [] w = "corpus" -> 5 [] OTHER -> 6
RefBefore(a, b) ==
    \/ WindowRank(a.Window) < WindowRank(b.Window)
    \/ a.Window = b.Window /\ RLe(a.Theta, b.Theta)
RECURSIVE InsertSorted(_, _)
InsertSorted(row, q) ==
    IF q = << >> THEN <<row>>
    ELSE IF RefBefore(row, Head(q)) THEN <<row>> \o q
    ELSE <<Head(q)>> \o InsertSorted(row, Tail(q))
RECURSIVE SortRows(_)
SortRows(q) == IF q = << >> THEN << >> ELSE InsertSorted(Head(q), SortRows(Tail(q)))
ObsWindow(o, wc) == IF wc # "None" /\ wc = "Metro" THEN o.Metro ELSE DEFAULT_WINDOW
_build_ecdf_reference(obs, wc) ==
    LET sorted == SortRows([i \in DOMAIN obs |->
                        [Window |-> ObsWindow(obs[i], wc), Theta |-> ObsTheta(obs[i])]])
        rank(i) == Cardinality({j \in 1..i : sorted[j].Window = sorted[i].Window})
        count(i) == Cardinality({j \in DOMAIN sorted : sorted[j].Window = sorted[i].Window})
    IN  [i \in DOMAIN sorted |->
            [Window |-> sorted[i].Window, Theta |-> sorted[i].Theta,
             Rank |-> rank(i), Count |-> count(i),
             Quantile |-> Rat(2 * rank(i) - 1, 2 * count(i))]]

\* a call on the pipeline: its name, its arguments (for fit: the stores table,
\* whether the observations frame is empty, the feature columns asked for; for
\* predict: the stores table) and the error it raised
PipelineCall(op, st, empty, fc, raised) ==
    [op |-> op, stores |-> st, empty |-> empty, feature_columns |-> fc, raised |-> raised]
NoPipelineCall == PipelineCall("none", Unset, FALSE, Unset, NoError)

PipelineIdle ==
    /\ observations = << >>
    /\ window_column = "None"
    /\ solution = Unset
    /\ min_samples_glm = 0
    /\ ecdf_cache_path = "None" /\ cache_file = Unset
    /\ feature_columns_ = Unset /\ feature_stats_ = Unset /\ window_column_ = Unset
    /\ ecdf_reference_ = Unset /\ store_summary_ = Unset
    /\ yield_model_ = Unset /\ value_model_ = Unset
    /\ trace_records_ = Unset
    /\ call = NoPipelineCall
    /\ predictions = Unset

\* PosteriorPipeline.fit (posterior.py 411-468), called with this run's
\* observations or an empty table, a stores table, and the feature columns
\* named explicitly or left to be selected (fc = Unset).
\* posterior.py 89-165.  The IRLS loop either converges to sol.yield, tagged by
\* the over-dispersion alpha, or raises _GLMConvergenceError: from a singular
\* weighted normal matrix (137-140) or from exhausting max_iter (147-148).
_GLMResult(beta, family) ==
    [family |-> family, by_x |-> beta.by_x, se_by_x |-> beta.se_by_x,
     intercept |-> beta.intercept, se_intercept |-> beta.se_intercept]
_solve_glm(sol) ==
    IF sol.irls = "singular"
    THEN [raised |-> Error("_GLMConvergenceError", "Singular design matrix in IRLS")]
    ELSE IF sol.irls = "diverged"
    THEN [raised |-> Error("_GLMConvergenceError", "GLM failed to converge")]
    ELSE [raised |-> NoError,
          result |-> _GLMResult(sol.yield, IF sol.alpha > 0 THEN "NegBin" ELSE "Poisson")]

\* posterior.py 444-452: the try/except around _solve_glm in fit.
fit_yield_model_requested_family(sol) ==
    LET glm == _solve_glm(sol)
    IN  IF glm.raised.type = "_GLMConvergenceError"
        THEN _GLMResult(sol.ridge, IF sol.alpha > 0 THEN "NegBin" ELSE "Poisson")
        ELSE glm.result
fit_yield_model(sol) ==
    LET glm == _solve_glm(sol)
    IN  IF glm.raised.type = "_GLMConvergenceError"
        THEN _GLMResult(sol.ridge, "Poisson")
        ELSE glm.result

\* posterior.py 463-466: the file holds the rows of the reference
to_parquet(reference) == [none |-> FALSE, rows |-> reference]

fit(obs, st, fc) ==
    LET columns == IF fc = Unset THEN AutoColumns(st) ELSE fc.columns
        features == _prepare_features(st, columns)
        summary == _summarise_observations(obs)
        joined == DOMAIN summary \cap {st.rows[i].StoreId : i \in DOMAIN st.rows}
        done(raised) == /\ call' = PipelineCall("fit", st, obs = << >>, fc, raised)
                        /\ predictions' = Unset
                        /\ UNCHANGED <<trace_records_, observations, window_column,
                                       solution, min_samples_glm, ecdf_cache_path, pc,
                                       blendVars, scoringVars, cliVars, clusterVars>>
    IN  IF obs = << >>
        THEN /\ done(Error("ValueError", "Observations frame is empty"))
             /\ UNCHANGED <<fittedVars, cache_file>>
        ELSE IF ~(columns \subseteq st.columns)
        THEN /\ done(Error("KeyError", "Feature column missing from store frame"))
             /\ UNCHANGED <<fittedVars, cache_file>>
        ELSE /\ feature_columns_' = [none |-> FALSE, columns |-> features.columns]
             /\ feature_stats_' = [none |-> FALSE, stats |-> features.stats]
             /\ store_summary_' = [none |-> FALSE, rows |-> summary]
             /\ IF joined = {}
                THEN /\ done(Error("ValueError",
                            "No overlapping stores between observations and features"))
                     /\ UNCHANGED <<yield_model_, value_model_, window_column_,
                                    ecdf_reference_, cache_file>>
                ELSE /\ yield_model_' = [none |-> FALSE, model |-> fit_yield_model(solution),
                                         columns |-> features.columns]
                     /\ value_model_' = [none |-> FALSE, model |-> solution.value,
                                         columns |-> features.columns]
                     /\ window_column_' = [none |-> FALSE, column |-> window_column]
                     /\ ecdf_reference_' =
                            [none |-> FALSE,
                             rows |-> _build_ecdf_reference(obs, window_column)]
                     /\ cache_file' =
                            IF ecdf_cache_path = "None" THEN cache_file
                            ELSE to_parquet(_build_ecdf_reference(obs, window_column))
                     /\ done(NoError)


\* --------------------------------------------------- posterior: predict
knn_k == 3
knn_smoothing_factor == Rat(1, 2)
\* the 1e-6 added to a distance (posterior.py 313); coordinates are counted in
\* units of 1e-6 degree
DistanceEps == 1
\* the 1e-6 added to theta in the credibility (posterior.py 605)
ThetaEps == Rat(1, 1000 * 1000)

\* python's max(lower, min(upper, score)) of prior.py clamp_score, on fractions
clamp_scoreR_noupper(score) == RMax(RInt(1), score)
clamp_scoreR(score) == RMax(RInt(1), RMin(RInt(5), score))

\* posterior.py 532-538: the summary reindexed on the stores, missing rows 0
SummaryRow(id) ==
    IF id \in DOMAIN store_summary_.rows THEN store_summary_.rows[id]
    ELSE [visits |-> 0, dwell_total |-> RInt(0), items_total |-> RInt(0),
          value_mean |-> RInt(0), theta_mean |-> RInt(0)]

\* _GLMResult.predict / _LinearModelResult.predict on the design of one row
\* (predict reaches it only with the feature columns the model was fitted on)
ModelPredict(model, r) ==
    IF "X" \in feature_columns_.columns
    THEN [mu |-> RInt(model.by_x[r.X + 1]), se |-> RInt(model.se_by_x[r.X + 1])]
    ELSE [mu |-> RInt(model.intercept), se |-> RInt(model.se_intercept)]

\* posterior.py 553, 565, 571: the method tag of a visit count
MethodOf_strict(visit_count, threshold) ==
    IF visit_count > threshold THEN "GLM"
    ELSE IF visit_count > 0 THEN "Hier"
    ELSE "kNN"
MethodOf(visit_count, threshold) ==
    IF visit_count >= threshold THEN "GLM"
    ELSE IF visit_count > 0 THEN "Hier"
    ELSE "kNN"

\* posterior.py 546-576: one store before smoothing
Resolve_observed_first(r) ==
    LET sm == SummaryRow(r.StoreId)
        th == ModelPredict(yield_model_.model, r)
        va == ModelPredict(value_model_.model, r)
        method == MethodOf(sm.visits, min_samples_glm)
    IN  [method |-> method, visits |-> sm.visits, summary |-> sm,
         theta_pred |-> th.mu, value_pred |-> va.mu,
         theta_se |-> th.se, value_se |-> va.se,
         theta |-> IF method = "kNN" THEN th.mu ELSE sm.theta_mean,
         value |-> IF method = "kNN" THEN va.mu ELSE sm.value_mean]
Resolve(r) ==
    LET sm == SummaryRow(r.StoreId)
        th == ModelPredict(yield_model_.model, r)
        va == ModelPredict(value_model_.model, r)
        method == MethodOf(sm.visits, min_samples_glm)
    IN  [method |-> method, visits |-> sm.visits, summary |-> sm,
         theta_pred |-> th.mu, value_pred |-> va.mu,
         theta_se |-> th.se, value_se |-> va.se,
         theta |-> IF method = "GLM"
                   THEN IF RLt(RInt(0), sm.theta_mean) THEN sm.theta_mean ELSE th.mu
                   ELSE IF method = "Hier" THEN sm.theta_mean ELSE th.mu,
         value |-> IF method = "kNN" THEN va.mu ELSE sm.value_mean]

\* posterior.py 279-326.  res is the per-row resolution; the result maps each
\* row to its smoothed theta and value.
ISqrt(n) == CHOOSE r \in 0..n : r * r = n
Distance(a, b) ==
    ISqrt((a.Latitude - b.Latitude) * (a.Latitude - b.Latitude)
          + (a.Longitude - b.Longitude) * (a.Longitude - b.Longitude))
\* np.argpartition(distances, n - 1)[:n]: n anchors none of which is farther
\* than an anchor left out
Nearest(rows, idx, anchors, n) ==
    CHOOSE S \in SUBSET anchors :
        /\ Cardinality(S) = n
        /\ \A a \in S : \A b \in anchors \ S :
                Distance(rows[idx], rows[a]) <= Distance(rows[idx], rows[b])
\* posterior.py 306-324: one pass of the loop over the sparse rows
SmoothOne(rows, res, anchor, idx, k, smoothing_factor) ==
    LET nb == Nearest(rows, idx, anchor, Min2(k, Cardinality(anchor)))
        raw(a) == Rat(1, Distance(rows[idx], rows[a]) + DistanceEps)
        total == SumOver(nb, raw)
        weight(a) == RDiv(raw(a), total)
        theta_anchor == SumOver(nb, LAMBDA a : RMul(res[a].theta, weight(a)))
        value_anchor == SumOver(nb, LAMBDA a : RMul(res[a].value, weight(a)))
        keep == RSub(RInt(1), smoothing_factor)
    IN  [theta |-> RAdd(RMul(keep, res[idx].theta),
                        RMul(smoothing_factor, theta_anchor)),
         value |-> RAdd(RMul(keep, res[idx].value),
                        RMul(smoothing_factor, value_anchor))]
_knn_smooth_every_row(rows, res, k, smoothing_factor) ==
    LET sparse == {i \in DOMAIN rows : res[i].visits = 0}
        anchor == {i \in DOMAIN rows : res[i].visits > 0}
    IN  [i \in DOMAIN rows |->
            IF sparse # {} /\ anchor # {}
            THEN SmoothOne(rows, res, anchor, i, k, smoothing_factor)
            ELSE [theta |-> res[i].theta, value |-> res[i].value]]
_knn_smooth_sparse_predictions(rows, res, k, smoothing_factor) ==
    LET sparse == {i \in DOMAIN rows : res[i].visits = 0}
        anchor == {i \in DOMAIN rows : res[i].visits > 0}
    IN  [i \in DOMAIN rows |->
            IF sparse # {} /\ anchor # {} /\ i \in sparse
            THEN SmoothOne(rows, res, anchor, i, k, smoothing_factor)
            ELSE [theta |-> res[i].theta, value |-> res[i].value]]

\* posterior.py 300-326 as the loop runs: anchor_theta and anchor_value are
\* taken from the arrays before the loop (res), smoothed_theta and
\* smoothed_value start as copies and the pass of row idx reads and writes
\* entry idx of them; order is the order in which the sparse rows are visited
SparseStep(rows, res, smoothed, anchor, idx, k, smoothing_factor) ==
    SmoothOne(rows, [res EXCEPT ![idx].theta = smoothed[idx].theta,
                                ![idx].value = smoothed[idx].value],
              anchor, idx, k, smoothing_factor)
RECURSIVE SparseLoop(_, _, _, _, _, _, _)
SparseLoop(rows, res, anchor, k, smoothing_factor, order, smoothed) ==
    IF order = << >> THEN smoothed
    ELSE SparseLoop(rows, res, anchor, k, smoothing_factor, Tail(order),
                    [smoothed EXCEPT ![Head(order)] =
                        SparseStep(rows, res, smoothed, anchor, Head(order), k,
                                   smoothing_factor)])

\* posterior.py 264-269 with numpy's searchsorted(values, theta, side="right"):
\* a bisection of values[lo:hi] that moves right whenever values[mid] <= theta
RECURSIVE Bisect(_, _, _, _)
Bisect(values, theta, lo, hi) ==
    IF lo >= hi THEN lo
    ELSE LET mid == lo + ((hi - lo) \div 2)
         IN  IF RLe(values[mid + 1], theta)
             THEN Bisect(values, theta, mid + 1, hi)
             ELSE Bisect(values, theta, lo, mid)
searchsorted(values, theta) == Bisect(values, theta, 0, Len(values))
_ecdf_lookup_above(theta, reference) ==
    LET values == [i \in DOMAIN reference |-> reference[i].Theta]
    IN  IF Len(values) = 0 THEN Rat(1, 2)
        ELSE Rat(Len(values) - searchsorted(values, theta), Len(values))
_ecdf_lookup(theta, reference) ==
    LET values == [i \in DOMAIN reference |-> reference[i].Theta]
    IN  IF Len(values) = 0 THEN Rat(1, 2)
        ELSE Rat(searchsorted(values, theta), Len(values))

\* posterior.py 491-496
_window_lookup(r, st) ==
    IF window_column_.column # "None" /\ window_column_.column \in st.columns
            /\ r.Metro # NoMetro
    THEN r.Metro
    ELSE DEFAULT_WINDOW

\* posterior.py 498-506
WindowRows(reference, window) == SelectSeq(reference, LAMBDA row : row.Window = window)
\* a lookup that answers from the reference only until a predict has returned
_quantile_for_theta_once(theta, window) ==
    IF trace_records_.none THEN _ecdf_lookup(theta, ecdf_reference_.rows) ELSE Rat(1, 2)
_quantile_for_theta(theta, window) ==
    LET window_ref == WindowRows(ecdf_reference_.rows, window)
    IN  IF window_ref = << >> THEN _ecdf_lookup(theta, ecdf_reference_.rows)
        ELSE _ecdf_lookup(theta, window_ref)

\* posterior.py 602: np.clip(value_final, 1.0, 5.0)
value_final_raw(value) == value
value_final(value) == RClip(value, RInt(1), RInt(5))

\* posterior.py 604-612
Credibility_unpenalised(theta_se, value_se, theta_final, method) ==
    RClip(RDiv(RInt(1),
               RAdd(RAdd(RInt(1), RMax(RDiv(theta_se, RAdd(theta_final, ThetaEps)), RInt(0))),
                    RMax(RDiv(value_se, RInt(2)), RInt(0)))),
          RInt(0), RInt(1))
Credibility(theta_se, value_se, theta_final, method) ==
    LET se_normalised == RMax(RDiv(theta_se, RAdd(theta_final, ThetaEps)), RInt(0))
        value_component == RMax(RDiv(value_se, RInt(2)), RInt(0))
        credibility == RClip(RDiv(RInt(1), RAdd(RAdd(RInt(1), se_normalised),
                                                 value_component)),
                             RInt(0), RInt(1))
    IN  IF method = "kNN" THEN RMul(credibility, Rat(8, 10)) ELSE credibility

\* posterior.py 532-701: every row of a successful predict, with what the
\* trace of the row records
Predicted(st) ==
    LET res == [i \in DOMAIN st.rows |-> Resolve(st.rows[i])]
        smoothed == IF \E i \in DOMAIN res : res[i].method = "kNN"
                    THEN _knn_smooth_sparse_predictions(st.rows, res, knn_k,
                                                        knn_smoothing_factor)
                    ELSE [i \in DOMAIN res |->
                            [theta |-> res[i].theta, value |-> res[i].value]]
    IN  [i \in DOMAIN st.rows |->
            LET own == res[i]
                final == smoothed[i]
                window == _window_lookup(st.rows[i], st)
                quantile == _quantile_for_theta(final.theta, window)
                yield_score == clamp_scoreR(RAdd(RInt(1), RMul(RInt(4), quantile)))
                value == value_final(final.value)
                credibility == Credibility(own.theta_se, own.value_se, final.theta,
                                           own.method)
            IN  [StoreId |-> st.rows[i].StoreId,
                 Theta |-> final.theta,
                 Yield |-> yield_score,
                 Value |-> value,
                 Cred |-> credibility,
                 Method |-> own.method,
                 ECDF_q |-> quantile,
                 trace |-> TraceRecord(
                    ToString(st.rows[i].StoreId), "posterior", << >>,
                    [theta_prediction |-> own.theta_pred,
                     value_prediction |-> own.value_pred],
                    [c \in feature_columns_.columns |-> RInt(st.rows[i][c])],
                    [theta |-> RSub(final.theta, own.theta),
                     value |-> RSub(final.value, own.value)],
                    [visits |-> own.visits,
                     dwell_total |-> own.summary.dwell_total,
                     items_total |-> own.summary.items_total,
                     value_mean |-> own.summary.value_mean,
                     theta_observed |-> own.summary.theta_mean,
                     method |-> own.method,
                     theta_uncertainty |-> own.theta_se,
                     value_uncertainty |-> own.value_se],
                    \* hash_payload is injective on the payloads of the model
                    [parameters_hash |->
                        [feature_columns |-> feature_columns_.columns,
                         min_samples_glm |-> min_samples_glm,
                         knn_k |-> knn_k,
                         knn_smoothing_factor |-> knn_smoothing_factor,
                         yield_beta |-> yield_model_.model,
                         value_beta |-> value_model_.model],
                     yield_family |-> yield_model_.model.family,
                     min_samples_glm |-> min_samples_glm,
                     knn_k |-> knn_k,
                     knn_smoothing_factor |-> knn_smoothing_factor],
                    [theta_final |-> final.theta,
                     yield_final |-> yield_score,
                     value_final |-> value,
                     credibility |-> credibility,
                     ecdf_quantile |-> quantile])]]

PublicRow(p) ==
    [StoreId |-> p.StoreId, Theta |-> p.Theta, Yield |-> p.Yield, Value |-> p.Value,
     Cred |-> p.Cred, Method |-> p.Method, ECDF_q |-> p.ECDF_q]

\* posterior.py 629, 689-700: the dictionary predict builds afresh, one record
\* under str(store_id) for every row
traces_kept(rows) ==
    LET fresh == [key \in {ToString(rows[i].StoreId) : i \in DOMAIN rows} |->
                    LET i == CHOOSE i \in DOMAIN rows : ToString(rows[i].StoreId) = key
                    IN  rows[i].trace]
    IN  IF trace_records_.none THEN fresh ELSE fresh @@ trace_records_.rows
traces(rows) ==
    [key \in {ToString(rows[i].StoreId) : i \in DOMAIN rows} |->
        LET i == CHOOSE i \in DOMAIN rows : ToString(rows[i].StoreId) = key
        IN  rows[i].trace]

\* PosteriorPipeline.predict (posterior.py 508-701)
predict(st) ==
    LET done(raised, table) ==
            /\ call' = PipelineCall("predict", st, FALSE, Unset, raised)
            /\ predictions' = table
            /\ UNCHANGED <<fittedVars, observations, window_column, solution,
                           min_samples_glm, ecdf_cache_path, cache_file, pc, blendVars,
                           scoringVars, cliVars, clusterVars>>
        ids == {st.rows[i].StoreId : i \in DOMAIN st.rows}
    IN  IF store_summary_.none
        THEN /\ done(Error("RuntimeError", "Pipeline not fitted"), Unset)
             /\ UNCHANGED trace_records_
        ELSE IF ~(feature_columns_.columns \subseteq st.columns)
        THEN /\ done(Error("KeyError", "Feature column missing from store frame"), Unset)
             /\ UNCHANGED trace_records_
        ELSE IF yield_model_.none \/ value_model_.none \/ ecdf_reference_.none
        THEN /\ done(Error("RuntimeError", "Pipeline not fitted"), Unset)
             /\ UNCHANGED trace_records_
        ELSE IF yield_model_.columns # feature_columns_.columns
        \* the design of the current feature columns times the coefficients of
        \* a model fitted on other columns: numpy refuses the product
        THEN /\ done(Error("ValueError", "matmul: design and beta differ in size"), Unset)
             /\ UNCHANGED trace_records_
        ELSE LET rows == Predicted(st)
             IN  /\ done(NoError, [none |-> FALSE,
                                   rows |-> [i \in DOMAIN rows |-> PublicRow(rows[i])]])
                 /\ trace_records_' = [none |-> FALSE, rows |-> traces(rows)]


\* PosteriorPipeline.iter_traces (posterior.py 702-709): the flattened record
\* of every entry of trace_records_ (of {} when it is None), by its key
iter_traces ==
    LET records == IF trace_records_.none THEN << >> ELSE trace_records_.rows
    IN  [store_id \in DOMAIN records |->
            LET payload == to_dict(records[store_id])
            IN  IF "store_id" \in DOMAIN payload THEN payload
                ELSE [k \in DOMAIN payload \cup {"store_id"} |->
                        IF k = "store_id" THEN store_id ELSE payload[k]]]

\* ------------------------------------------------ prior scoring (prior.py)
Absent == [none |-> TRUE]
Some(x) == [none |-> FALSE, v |-> x]

TYPE_BASELINES ==
    [t \in {"Thrift", "Antique", "Vintage", "Flea/Surplus", "Unknown"} |->
        CASE t = "Thrift" -> [value |-> Rat(28, 10), yield_score |-> Rat(34, 10)]
          [] t = "Antique" -> [value |-> Rat(40, 10), yield_score |-> Rat(20, 10)]
          [] t = "Vintage" -> [value |-> Rat(38, 10), yield_score |-> Rat(28, 10)]
          [] OTHER -> [value |-> Rat(30, 10), yield_score |-> Rat(30, 10)]]
AFFLUENCE_COEFFICIENTS ==
    [t \in {"Thrift", "Antique", "Vintage", "Flea/Surplus", "Unknown"} |->
        CASE t = "Thrift" -> [alpha_income |-> Rat(5, 10), alpha_high_income |-> Rat(5, 10),
                              beta_renter |-> Rat(0 - 5, 10)]
          [] t = "Antique" -> [alpha_income |-> Rat(1, 10), alpha_high_income |-> Rat(1, 10),
                               beta_renter |-> Rat(0 - 1, 10)]
          [] t = "Vintage" -> [alpha_income |-> Rat(5, 10), alpha_high_income |-> Rat(3, 10),
                               beta_renter |-> Rat(0 - 10, 10)]
          [] OTHER -> [alpha_income |-> Rat(2, 10), alpha_high_income |-> Rat(2, 10),
                       beta_renter |-> Rat(0 - 3, 10)]]

get_type_baseline_first(store_type) ==
    IF store_type \in DOMAIN TYPE_BASELINES THEN TYPE_BASELINES[store_type]
    ELSE TYPE_BASELINES["Thrift"]
get_type_baseline(store_type) ==
    IF store_type \in DOMAIN TYPE_BASELINES THEN TYPE_BASELINES[store_type]
    ELSE TYPE_BASELINES["Unknown"]
get_affluence_coefficients(store_type) ==
    IF store_type \in DOMAIN AFFLUENCE_COEFFICIENTS THEN AFFLUENCE_COEFFICIENTS[store_type]
    ELSE AFFLUENCE_COEFFICIENTS["Unknown"]

\* prior.py 114-249.  a: the keyword arguments.  PriorScoreFields is the
\* result without its trace (prior.py 152-183).
Mixed(lambda, value, yield_score) ==
    RAdd(RMul(lambda, value), RMul(RSub(RInt(1), lambda), yield_score))
PriorScoreFields(a) ==
    LET baseline == get_type_baseline(a.store_type)
        coeffs == get_affluence_coefficients(a.store_type)
        income_contribution == RMul(coeffs.alpha_income, a.median_income_norm)
        high_income_contribution == RMul(coeffs.alpha_high_income, a.pct_hh_100k_norm)
        renter_contribution == RMul(coeffs.beta_renter, a.pct_renter_norm)
        adjacency_value_adjustment ==
            IF a.adjacency_adjustment.none THEN RInt(0) ELSE a.adjacency_adjustment.v[1]
        adjacency_yield_adjustment ==
            IF a.adjacency_adjustment.none THEN RInt(0) ELSE a.adjacency_adjustment.v[2]
        raw_value == RAdd(RAdd(RAdd(baseline.value, income_contribution),
                               high_income_contribution), adjacency_value_adjustment)
        raw_yield == RAdd(RAdd(baseline.yield_score, renter_contribution),
                          adjacency_yield_adjustment)
        raw_composite == Mixed(a.lambda_weight.v, raw_value, raw_yield)
    IN  [value |-> IF a.clamp THEN clamp_scoreR(raw_value) ELSE raw_value,
         yield_score |-> IF a.clamp THEN clamp_scoreR(raw_yield) ELSE raw_yield,
         composite |-> IF a.lambda_weight.none THEN Absent
                       ELSE Some(IF a.clamp THEN clamp_scoreR(raw_composite)
                                 ELSE raw_composite),
         baseline_value |-> baseline.value, baseline_yield |-> baseline.yield_score,
         income_contribution |-> income_contribution,
         high_income_contribution |-> high_income_contribution,
         renter_contribution |-> renter_contribution,
         adjacency_value_adjustment |-> adjacency_value_adjustment,
         adjacency_yield_adjustment |-> adjacency_yield_adjustment,
         posterior_value_override |->
            IF a.posterior_overrides.none THEN Absent ELSE a.posterior_overrides.v[1],
         posterior_yield_override |->
            IF a.posterior_overrides.none THEN Absent ELSE a.posterior_overrides.v[2]]

\* prior.py 185-233: the trace of the result r of the call a
PriorTrace(a, r) ==
    LET trace_payload ==
            [baseline |-> [value |-> r.baseline_value, yield |-> r.baseline_yield],
             coefficients |-> get_affluence_coefficients(a.store_type),
             adjacency |-> a.adjacency_adjustment,
             lambda_weight |-> a.lambda_weight,
             posterior_overrides |-> a.posterior_overrides]
    IN  TraceRecord(
            IF a.store_id.none THEN a.store_type ELSE a.store_id.v, "prior",
            [store_type |-> a.store_type],
            [value |-> r.baseline_value, yield |-> r.baseline_yield],
            [income |-> r.income_contribution,
             high_income |-> r.high_income_contribution,
             renter |-> r.renter_contribution],
            [value |-> r.adjacency_value_adjustment,
             yield |-> r.adjacency_yield_adjustment],
            [lambda_weight |-> a.lambda_weight],
            \* hash_payload is injective on the payloads of the model
            [parameters_hash |-> trace_payload,
             posterior_overrides_present |-> ~a.posterior_overrides.none],
            [value |-> r.value, yield |-> r.yield_score, composite |-> r.composite])

WithTrace(a, r) ==
    [f \in DOMAIN r \cup {"trace"} |-> IF f = "trace" THEN Some(PriorTrace(a, r)) ELSE r[f]]
compute_prior_score_overriding(a) ==
    LET r == PriorScoreFields(a)
        applied == [r EXCEPT
            !.value = IF r.posterior_value_override.none THEN @
                      ELSE r.posterior_value_override.v,
            !.yield_score = IF r.posterior_yield_override.none THEN @
                            ELSE r.posterior_yield_override.v]
    IN  WithTrace(a, applied)
compute_prior_score(a) == WithTrace(a, PriorScoreFields(a))

\* PriorScoreResult.to_trace (prior.py 87-107)
to_trace(result) ==
    IF ~result.trace.none THEN to_dict(result.trace.v)
    ELSE [value |-> result.value, yield |-> result.yield_score,
          composite |-> result.composite,
          baseline_value |-> result.baseline_value,
          baseline_yield |-> result.baseline_yield,
          income_contribution |-> result.income_contribution,
          high_income_contribution |-> result.high_income_contribution,
          renter_contribution |-> result.renter_contribution,
          adjacency_value_adjustment |-> result.adjacency_value_adjustment,
          adjacency_yield_adjustment |-> result.adjacency_yield_adjustment,
          posterior_value_override |-> result.posterior_value_override,
          posterior_yield_override |-> result.posterior_yield_override]

\* the calls of compute_prior_score this model makes
StoreTypes == {"Thrift", "Antique", "Vintage", "Flea/Surplus", "Unknown", "Bookstore"}
AffluenceInputs ==
    {<<RInt(0), RInt(0), RInt(0)>>,
     <<Rat(95, 100), Rat(90, 100), Rat(20, 100)>>,
     <<RInt(10), RInt(10), RInt(0 - 10)>>,
     <<RInt(0 - 10), RInt(0 - 10), RInt(10)>>}
PriorLambdas == {Absent, Some(RInt(0)), Some(Rat(1, 2)), Some(RInt(1))}
AdjacencyAdjustments ==
    {Absent, Some(<<Rat(1, 2), Rat(0 - 1, 2)>>), Some(<<RInt(0 - 3), RInt(3)>>)}
PosteriorOverrides ==
    {Absent, Some(<<Some(Rat(9, 2)), Some(Rat(3, 2))>>), Some(<<Absent, Some(RInt(2))>>)}
PriorScoreCalls ==
    {[fn |-> "compute_prior_score",
      args |-> [store_type |-> t, store_id |-> Absent,
                median_income_norm |-> x[1], pct_hh_100k_norm |-> x[2],
                pct_renter_norm |-> x[3], lambda_weight |-> l, clamp |-> c,
                adjacency_adjustment |-> d, posterior_overrides |-> o]] :
        t \in StoreTypes, x \in AffluenceInputs, l \in PriorLambdas, c \in BOOLEAN,
        d \in AdjacencyAdjustments, o \in PosteriorOverrides}


\* prior.py 252-256
_validate_knn_parameters(k, smoothing_factor) ==
    IF k < 1 THEN Error("ValueError", "k must be >= 1 for adjacency smoothing")
    ELSE IF ~(RLe(RInt(0), smoothing_factor) /\ RLe(smoothing_factor, RInt(1)))
    THEN Error("ValueError", "smoothing_factor must fall within [0, 1]")
    ELSE NoError

\* prior.py 259-332.  frame: a sequence of rows with Latitude, Longitude, Value
\* and Yield; the result has one row per row of the frame.
Untouched(frame) ==
    [i \in DOMAIN frame |->
        [Value |-> frame[i].Value, Yield |-> frame[i].Yield,
         value_smoothed |-> frame[i].Value, yield_smoothed |-> frame[i].Yield,
         value_adjustment |-> RInt(0), yield_adjustment |-> RInt(0)]]
Neighbours(frame, idx, k) == Nearest(frame, idx, DOMAIN frame \ {idx}, k)
SmoothedFrame(frame, k, smoothing_factor) ==
    [idx \in DOMAIN frame |->
        LET neighbor_idx == Neighbours(frame, idx, k)
            weight(n) == Rat(1, Distance(frame[idx], frame[n]) + DistanceEps)
            weight_sum == SumOver(neighbor_idx, weight)
            neighbor_value ==
                RDiv(SumOver(neighbor_idx, LAMBDA n : RMul(frame[n].Value, weight(n))),
                     weight_sum)
            neighbor_yield ==
                RDiv(SumOver(neighbor_idx, LAMBDA n : RMul(frame[n].Yield, weight(n))),
                     weight_sum)
            keep == RSub(RInt(1), smoothing_factor)
            mixed_value == RAdd(RMul(keep, frame[idx].Value),
                                RMul(smoothing_factor, neighbor_value))
            mixed_yield == RAdd(RMul(keep, frame[idx].Yield),
                                RMul(smoothing_factor, neighbor_yield))
            delta_value == RSub(mixed_value, frame[idx].Value)
            delta_yield == RSub(mixed_yield, frame[idx].Yield)
        IN  [Value |-> frame[idx].Value, Yield |-> frame[idx].Yield,
             value_smoothed |-> RAdd(frame[idx].Value, delta_value),
             yield_smoothed |-> RAdd(frame[idx].Yield, delta_yield),
             value_adjustment |-> delta_value, yield_adjustment |-> delta_yield]]
\* prior.py 308-324 as the loop runs: the pass of row idx mixes the row with
\* its neighbours in the arrays values and yields and stores the differences
\* in deltas_value[idx] and deltas_yield[idx]
MixWithNeighbours(frame, cells, idx, k, smoothing_factor) ==
    LET neighbor_idx == Neighbours(frame, idx, k)
        weight(n) == Rat(1, Distance(frame[idx], frame[n]) + DistanceEps)
        weight_sum == SumOver(neighbor_idx, weight)
        neighbor_value ==
            RDiv(SumOver(neighbor_idx, LAMBDA n : RMul(cells[n].Value, weight(n))),
                 weight_sum)
        neighbor_yield ==
            RDiv(SumOver(neighbor_idx, LAMBDA n : RMul(cells[n].Yield, weight(n))),
                 weight_sum)
        keep == RSub(RInt(1), smoothing_factor)
    IN  [Value |-> RSub(RAdd(RMul(keep, cells[idx].Value),
                             RMul(smoothing_factor, neighbor_value)), cells[idx].Value),
         Yield |-> RSub(RAdd(RMul(keep, cells[idx].Yield),
                             RMul(smoothing_factor, neighbor_yield)), cells[idx].Yield)]
\* a pass that reads the scores with the differences found so far applied
AdjacencyStep_in_place(frame, deltas, idx, k, smoothing_factor) ==
    MixWithNeighbours(frame,
        [i \in DOMAIN frame |-> [Value |-> RAdd(frame[i].Value, deltas[i].Value),
                                 Yield |-> RAdd(frame[i].Yield, deltas[i].Yield)]],
        idx, k, smoothing_factor)
AdjacencyStep(frame, deltas, idx, k, smoothing_factor) ==
    MixWithNeighbours(frame,
        [i \in DOMAIN frame |-> [Value |-> frame[i].Value, Yield |-> frame[i].Yield]],
        idx, k, smoothing_factor)
RECURSIVE AdjacencyLoop(_, _, _, _, _)
AdjacencyLoop(frame, k, smoothing_factor, order, deltas) ==
    IF order = << >> THEN deltas
    ELSE AdjacencyLoop(frame, k, smoothing_factor, Tail(order),
                       [deltas EXCEPT ![Head(order)] =
                            AdjacencyStep(frame, deltas, Head(order), k, smoothing_factor)])
\* prior.py 305-330: the frame returned after the loop visited the rows in order
LoopedFrame(frame, k, smoothing_factor, order) ==
    LET zeros == [i \in DOMAIN frame |-> [Value |-> RInt(0), Yield |-> RInt(0)]]
        deltas == AdjacencyLoop(frame, k, smoothing_factor, order, zeros)
    IN  [i \in DOMAIN frame |->
            [Value |-> frame[i].Value, Yield |-> frame[i].Yield,
             value_smoothed |-> RAdd(frame[i].Value, deltas[i].Value),
             yield_smoothed |-> RAdd(frame[i].Yield, deltas[i].Yield),
             value_adjustment |-> deltas[i].Value, yield_adjustment |-> deltas[i].Yield]]

\* without the return for k < 1: the average over no neighbours counts as 0
knn_adjacency_smoothing_no_return(a) ==
    LET invalid == _validate_knn_parameters(a.k, a.smoothing_factor)
        k == IF Len(a.frame) <= a.k THEN Len(a.frame) - 1 ELSE a.k
        faded(i) == [Untouched(a.frame)[i] EXCEPT
                        !.value_adjustment =
                            RSub(RInt(0), RMul(a.smoothing_factor, a.frame[i].Value)),
                        !.value_smoothed =
                            RMul(RSub(RInt(1), a.smoothing_factor), a.frame[i].Value)]
    IN  IF invalid # NoError THEN [raised |-> invalid, rows |-> << >>]
        ELSE IF a.frame = << >> \/ a.smoothing_factor = RInt(0)
        THEN [raised |-> NoError, rows |-> Untouched(a.frame)]
        ELSE IF k < 1 THEN [raised |-> NoError, rows |-> [i \in DOMAIN a.frame |-> faded(i)]]
        ELSE [raised |-> NoError, rows |-> SmoothedFrame(a.frame, k, a.smoothing_factor)]
knn_adjacency_smoothing(a) ==
    LET invalid == _validate_knn_parameters(a.k, a.smoothing_factor)
        k == IF Len(a.frame) <= a.k THEN Len(a.frame) - 1 ELSE a.k
    IN  IF invalid # NoError THEN [raised |-> invalid, rows |-> << >>]
        ELSE IF a.frame = << >> \/ a.smoothing_factor = RInt(0)
        THEN [raised |-> NoError, rows |-> Untouched(a.frame)]
        ELSE IF k < 1 THEN [raised |-> NoError, rows |-> Untouched(a.frame)]
        ELSE [raised |-> NoError, rows |-> SmoothedFrame(a.frame, k, a.smoothing_factor)]

\* the calls of knn_adjacency_smoothing this model makes
FrameRow(lat, value, yield_score) ==
    [Latitude |-> lat, Longitude |-> 0, Value |-> value, Yield |-> yield_score]
FrameRows == {FrameRow(0, RInt(2), RInt(4)), FrameRow(1, RInt(4), Rat(5, 2)),
              FrameRow(3, RInt(3), RInt(3))}
Frames == UNION {[1..n -> FrameRows] : n \in 0..MaxFrame}
SmoothingCalls ==
    {[fn |-> "knn_adjacency_smoothing",
      args |-> [frame |-> f, k |-> k, smoothing_factor |-> sf]] :
        f \in Frames, k \in {0, 1, knn_k}, sf \in {RInt(0), Rat(1, 2), RInt(1), Rat(3, 2)}}

NoCall == [fn |-> "none"]
ScoringIdle == scoring_call = NoCall /\ scoring_result = Unset
CliIdle ==
    /\ args = Unset /\ datasets = Unset /\ effects = << >> /\ cli_error = NoError
    /\ specs = << >> /\ hierarchy = Unset

Thresholds == {2, 3}
InitPosterior ==
    /\ pc = "pipeline"
    /\ prior = NoTable /\ posterior = NoTable
    /\ lambda_weight = None /\ omega = 0 /\ output = NoTable
    /\ observations \in ObservationTables
    /\ window_column \in {"None", "Metro"}
    /\ solution \in Solutions
    /\ min_samples_glm \in Thresholds
    /\ ecdf_cache_path = "None" /\ cache_file = Unset
    /\ feature_columns_ = Unset /\ feature_stats_ = Unset /\ window_column_ = Unset
    /\ ecdf_reference_ = Unset /\ store_summary_ = Unset
    /\ yield_model_ = Unset /\ value_model_ = Unset
    /\ trace_records_ = Unset
    /\ call = NoPipelineCall
    /\ predictions = Unset
    /\ ScoringIdle
    /\ CliIdle

\* fit on the observation log with any stores table and the feature columns
\* detected from it, or asked for a column the table lacks, or on an empty
\* observation frame
FitArguments ==
    {<<st, Unset>> : st \in StoresTables} \cup {<<StoresBare, [columns |-> {"X"}]>>}
Fit == /\ pc = "pipeline"
       /\ \/ \E a \in FitArguments : fit(observations, a[1], a[2])
          \/ fit(<< >>, StoresFull, Unset)
Predict == pc = "pipeline" /\ \E st \in StoresTables \cup {StoresLone} : predict(st)

NextPosterior == Fit \/ Predict

SpecPosterior == InitPosterior /\ [][NextPosterior]_vars

\* A run that passes a cache path to fit (__main__.py 598-604).  The file is
\* absent, or holds the reference the fit of an earlier run wrote from the
\* observation log of that run.
EarlierLogs == {<<ObsKinds[2]>>, <<ObsKinds[1], ObsKinds[3]>>}
InitCache ==
    /\ pc = "pipeline"
    /\ prior = NoTable /\ posterior = NoTable
    /\ lambda_weight = None /\ omega = 0 /\ output = NoTable
    /\ observations \in ObservationTables
    /\ window_column \in {"None", "Metro"}
    /\ solution \in {sol \in Solutions : sol.irls = "converged"}
    /\ min_samples_glm = 3
    /\ ecdf_cache_path = "cache"
    /\ cache_file \in {Unset} \cup
            {to_parquet(_build_ecdf_reference(log, window_column)) : log \in EarlierLogs}
    /\ feature_columns_ = Unset /\ feature_stats_ = Unset /\ window_column_ = Unset
    /\ ecdf_reference_ = Unset /\ store_summary_ = Unset
    /\ yield_model_ = Unset /\ value_model_ = Unset
    /\ trace_records_ = Unset
    /\ call = NoPipelineCall
    /\ predictions = Unset
    /\ ScoringIdle
    /\ CliIdle
SpecCache == InitCache /\ [][NextPosterior]_vars


\* ---------------------------------------------- prior scoring: the calls
InitPrior ==
    /\ pc = "scoring"
    /\ prior = NoTable /\ posterior = NoTable
    /\ lambda_weight = None /\ omega = 0 /\ output = NoTable
    /\ PipelineIdle
    /\ scoring_call \in PriorScoreCalls \cup SmoothingCalls
    /\ scoring_result = Unset
    /\ CliIdle

ComputePriorScore ==
    /\ scoring_call.fn = "compute_prior_score"
    /\ scoring_result = Unset
    /\ scoring_result' = [none |-> FALSE, raised |-> NoError,
                          result |-> compute_prior_score(scoring_call.args)]
    /\ UNCHANGED <<pc, blendVars, pipelineVars, scoring_call, cliVars, clusterVars>>

KnnAdjacencySmoothing ==
    /\ scoring_call.fn = "knn_adjacency_smoothing"
    /\ scoring_result = Unset
    /\ LET returned == knn_adjacency_smoothing(scoring_call.args)
       IN  scoring_result' = [none |-> FALSE, raised |-> returned.raised,
                              result |-> returned.rows]
    /\ UNCHANGED <<pc, blendVars, pipelineVars, scoring_call, cliVars, clusterVars>>

NextPrior == ComputePriorScore \/ KnnAdjacencySmoothing

SpecPrior == InitPrior /\ [][NextPrior]_vars


\* ------------------------------------- the scoring functions and the pipeline
InitScoring == InitPrior \/ InitPosterior
NextScoring == NextPrior \/ NextPosterior
SpecScoring == InitScoring /\ [][NextScoring]_vars

InitBlend ==
    /\ pc = "start"
    /\ prior \in {NoTable} \cup Tables(PriorRows)
    /\ posterior \in {NoTable} \cup Tables(PosteriorRows)
    /\ lambda_weight \in Lambdas
    /\ omega \in Omegas
    /\ output = NoTable
    /\ PipelineIdle
    /\ ScoringIdle
    /\ CliIdle

Blend ==
    /\ pc = "start"
    /\ output' = _blend_scores(prior, posterior, lambda_weight, omega)
    /\ pc' = "blended"
    /\ UNCHANGED <<prior, posterior, lambda_weight, omega, pipelineVars, scoringVars,
                   cliVars, clusterVars>>

NextBlend == Blend

SpecBlend == InitBlend /\ [][NextBlend]_vars

\* ------------------------------------------- the three stages of a score run
\* (__main__.py 420-453: the prior scorer, the posterior pipeline and the
\* blender each produce the trace rows of their stage)
\* the blender's tables of at most one row
TraceTables(Rows) ==
    {[none |-> FALSE, rows |-> r] : r \in UNION {[ids -> Rows] : ids \in {{}, {MaxStores}}}}
InitTrace ==
    \/ InitPrior /\ scoring_call \in PriorScoreCalls
    \/ InitPosterior /\ solution.irls = "converged" /\ min_samples_glm = 3
    \/ /\ pc = "start"
       /\ prior \in {NoTable} \cup TraceTables(PriorRows)
       /\ posterior \in {NoTable} \cup TraceTables(PosteriorRows)
       /\ lambda_weight \in Lambdas
       /\ omega \in Omegas
       /\ output = NoTable
       /\ PipelineIdle
       /\ ScoringIdle
       /\ CliIdle
NextTrace == ComputePriorScore \/ Fit \/ Predict \/ Blend
SpecTrace == InitTrace /\ [][NextTrace]_vars

\* ------------------------------------------------------- the score command
\* __main__.py 71-74
MODE_PRIOR == "prior-only"
MODE_POSTERIOR == "posterior-only"
MODE_BLENDED == "blended"
Modes == {MODE_PRIOR, MODE_POSTERIOR, MODE_BLENDED}
TraceFormats == {"jsonl", "csv"}

\* The weights --lambda and --omega are parsed with float(): any number, nan
\* included; --lambda may be left out (None), and so may omega when the
\* handler is called with a Namespace of its own.  In halves: -1/2, 1/2, 1, 3/2.
CliWeights ==
    {<<None, None>>, <<WeightDen, 1>>, <<1, 0>>, <<0 - 1, 1>>, <<1 + WeightDen, 1>>,
     <<NaN, 1>>, <<None, 1 + WeightDen>>, <<None, 0 - 1>>, <<None, NaN>>,
     <<1 + WeightDen, 1 + WeightDen>>}
\* the Namespace of a score run: build_parser (__main__.py 108-211)
ScoreArguments ==
    {[mode |-> m, lambda_weight |-> w[1], omega |-> w[2], observations |-> o,
      include_prior_trace |-> ip, include_posterior_trace |-> ipo,
      include_blend_trace |-> ib, trace_out |-> t, posterior_trace |-> pt,
      trace_format |-> tf, posterior_trace_format |-> ptf, diagnostics |-> dg] :
        m \in Modes, w \in CliWeights, o \in BOOLEAN, ip \in BOOLEAN, ipo \in BOOLEAN,
        ib \in BOOLEAN, t \in BOOLEAN, pt \in BOOLEAN, tf \in TraceFormats,
        ptf \in TraceFormats, dg \in BOOLEAN}

\* What the run finds: the stores file (missing, without the normalised
\* columns, with them, or with them and no row), and whether the score schema
\* accepts the blended records.
StoresFiles == {"missing", "bare", "normalised", "empty"}
ScoreDatasets == [stores : StoresFiles, schema_accepts : BOOLEAN]
StoresOf(d) == IF d.stores = "empty" THEN {} ELSE StoreIds

\* a step of the handler that the world can see
Effect(kind, what) == [kind |-> kind, what |-> what, format |-> "", rows |-> << >>]
Written(what, format, rows) ==
    [kind |-> "write", what |-> what, format |-> format, rows |-> rows]
Returned(done, raised) == [effects |-> done, raised |-> raised]
When(condition, done) == IF condition THEN done ELSE << >>

\* the rows of a stage's trace by store, in the order of the stores
StageTrace(stage, ids) ==
    LET order == SetToSeq(ids)
    IN  [i \in DOMAIN order |-> [store_id |-> ToString(order[i]), stage |-> stage]]
\* __main__.py 550-587: the prior score of every store and its trace row
_run_prior_scoring(ids) ==
    [frame |-> [none |-> FALSE,
                rows |-> [id \in ids |-> [Value |-> 128, Yield |-> 80, Composite |-> 104]]],
     traces |-> StageTrace("prior", ids)]
\* __main__.py 590-607: the predictions of a fresh pipeline fitted on the
\* observations, and the rows of iter_traces
_run_posterior_pipeline(ids) ==
    [predictions |-> [none |-> FALSE,
                      rows |-> [id \in ids |-> [Value |-> 140, Yield |-> 180]]],
     trace_rows |-> StageTrace("posterior", ids)]
\* __main__.py 698-730 as the list the handler extends the combined rows with
BlendTraceList(frame, lam) ==
    LET rows == _build_blend_trace_records(frame, lam)
        order == SetToSeq(DOMAIN rows)
    IN  [i \in DOMAIN order |-> rows[order[i]]]

\* schema_validation.py 41-50 with the verdict of the score schema: a frame
\* without rows is never looked at
_validate_scores_output(frame, accepts) ==
    IF frame.none \/ DOMAIN frame.rows = {} \/ accepts THEN NoError
    ELSE Error("AtlasCliError", "Score output failed schema validation")

\* __main__.py 378 and 384: not (0.0 <= w <= 1.0), true of nan
OutsideUnitInterval_unbounded(w) == ~(notna(w) /\ 0 <= w)
OutsideUnitInterval(w) == ~(notna(w) /\ 0 <= w /\ w <= ONE)

\* __main__.py 461-467: the rows of the stages the run was asked to include
combined_trace_rows_all(a, prior_rows, posterior_rows, blend_rows) == prior_rows \o posterior_rows \o blend_rows
combined_trace_rows(a, prior_rows, posterior_rows, blend_rows) ==
    When(a.include_prior_trace, prior_rows)
        \o When(a.include_posterior_trace, posterior_rows)
        \o When(a.include_blend_trace, blend_rows)

\* __main__.py 376-497
_handle_score(a, d) ==
    LET lam == a.lambda_weight
        w == IF a.omega = None THEN ONE \div 2 ELSE a.omega
        with_posterior == a.mode \in {MODE_POSTERIOR, MODE_BLENDED}
        with_prior == a.mode \in {MODE_PRIOR, MODE_BLENDED}
        ids == StoresOf(d)
        loaded == <<Effect("load", "stores")>>
                    \o When(a.diagnostics, <<Effect("load", "related_artifacts")>>)
        observed == loaded \o When(with_posterior, <<Effect("load", "observations")>>)
        pipeline == _run_posterior_pipeline(ids)
        posterior_predictions == IF with_posterior THEN pipeline.predictions ELSE NoTable
        posterior_trace_rows == IF with_posterior THEN pipeline.trace_rows ELSE << >>
        scorer == _run_prior_scoring(ids)
        prior_scores == IF with_prior THEN scorer.frame ELSE NoTable
        prior_trace_rows == IF with_prior THEN scorer.traces ELSE << >>
        scored == observed \o When(with_posterior, <<Effect("invoke", "posterior")>>)
                    \o When(with_prior, <<Effect("invoke", "prior")>>)
                    \o <<Effect("invoke", "blend")>>
        scores == _blend_scores(prior_scores, posterior_predictions, lam, w)
        blend_trace_rows == BlendTraceList(scores, lam)
        validated == scored \o <<Effect("validate", "output")>>
        written == validated \o <<Written("output", "table", scores.rows)>>
        combined ==
            combined_trace_rows(a, prior_trace_rows, posterior_trace_rows, blend_trace_rows)
        traced ==
            written
                \o When(a.trace_out /\ combined # << >>,
                        <<Written("trace_out", a.trace_format, combined)>>)
                \o When(a.posterior_trace /\ posterior_trace_rows # << >>,
                        <<Written("posterior_trace", a.posterior_trace_format,
                                  posterior_trace_rows)>>)
        finished == traced \o When(a.diagnostics, <<Effect("write", "diagnostics")>>)
    IN  IF lam # None /\ OutsideUnitInterval(lam)
        THEN Returned(<< >>, Error("AtlasCliError", "lambda must be between 0 and 1 inclusive"))
        ELSE IF OutsideUnitInterval(w)
        THEN Returned(<< >>, Error("AtlasCliError", "omega must be between 0 and 1 inclusive"))
        ELSE IF d.stores = "missing"
        THEN Returned(<<Effect("load", "stores")>>,
                      Error("AtlasCliError", "Stores file was not found"))
        ELSE IF with_posterior /\ ~a.observations
        THEN Returned(loaded, Error("AtlasCliError", "Mode requires --observations"))
        ELSE IF with_prior /\ d.stores = "bare"
        THEN Returned(observed, Error("AtlasCliError",
                        "Stores dataset is missing required normalised columns"))
        ELSE IF scores.none
        THEN Returned(scored, Error("AtlasCliError", "No scores were produced"))
        ELSE IF _validate_scores_output(scores, d.schema_accepts) # NoError
        THEN Returned(validated, _validate_scores_output(scores, d.schema_accepts))
        ELSE Returned(finished, NoError)

InitScore ==
    /\ pc = "score"
    /\ prior = NoTable /\ posterior = NoTable
    /\ lambda_weight = None /\ omega = 0 /\ output = NoTable
    /\ PipelineIdle
    /\ ScoringIdle
    /\ args \in ScoreArguments
    /\ datasets \in ScoreDatasets
    /\ effects = << >>
    /\ cli_error = NoError
    /\ specs = << >> /\ hierarchy = Unset

HandleScore ==
    /\ pc = "score"
    /\ LET returned == _handle_score(args, datasets)
       IN  /\ effects' = returned.effects
           /\ cli_error' = returned.raised
    /\ pc' = "scored"
    /\ UNCHANGED <<blendVars, pipelineVars, scoringVars, args, datasets, clusterVars>>

NextScore == HandleScore

SpecScore == InitScore /\ [][NextScore]_vars

\* --------------------------------------------------- sub-cluster nesting
\* SubClusterNodeSpec (subclusters.py 17-36): a key, the store ids as a sorted
\* tuple without duplicates, and the key of the parent (None for a root).
SpecKeys == {"a", "b", "c"}
NoParent == "None"
Tuple(S) ==
    CHOOSE t \in [1..Cardinality(S) -> S] : \A i \in DOMAIN t : \A j \in DOMAIN t : i < j => t[i] < t[j]
SubClusterNodeSpec(key, store_ids, parent_key) ==
    [key |-> key, store_ids |-> Tuple(store_ids), parent_key |-> parent_key]
NodeSpecs ==
    {SubClusterNodeSpec(key, ids, parent) :
        key \in SpecKeys, ids \in SUBSET StoreIds \ {{}}, parent \in SpecKeys \cup {NoParent}}
\* the sequences of specifications passed: at most one per key in any order,
\* and the sequences of two specifications under one key
SpecSequences ==
    UNION {{q \in [1..n -> NodeSpecs] :
                \A i \in DOMAIN q : \A j \in DOMAIN q : i < j => q[i].key # q[j].key} :
            n \in 0..Cardinality(SpecKeys)}
        \cup {q \in [1..2 -> NodeSpecs] : q[1].key = q[2].key}

\* subclusters.py 228-229: the tuple (-len(store_ids), store_ids) of a spec,
\* compared as python compares tuples
_sort_key(spec) == <<0 - Len(spec.store_ids), spec.store_ids>>
TupleLess(s, t) ==
    \/ \E i \in DOMAIN s \cap DOMAIN t :
            s[i] < t[i] /\ \A j \in 1..(i - 1) : s[j] = t[j]
    \/ Len(s) < Len(t) /\ \A j \in DOMAIN s : s[j] = t[j]
KeyLess(a, b) == a[1] < b[1] \/ (a[1] = b[1] /\ TupleLess(a[2], b[2]))
\* sorted(candidates, key=_sort_key): a stable sort, candidates with equal
\* keys stay in the order they have in the list
sorted(candidates) ==
    LET before(i, j) ==
            \/ KeyLess(_sort_key(candidates[i]), _sort_key(candidates[j]))
            \/ /\ ~KeyLess(_sort_key(candidates[j]), _sort_key(candidates[i]))
               /\ i < j
        place(i) == 1 + Cardinality({j \in DOMAIN candidates : before(j, i)})
    IN  [p \in DOMAIN candidates |-> candidates[CHOOSE i \in DOMAIN candidates : place(i) = p]]

\* subclusters.py 232-234
Pad3(ordinal) == IF ordinal < 10 THEN "00" \o ToString(ordinal) ELSE "0" \o ToString(ordinal)
RECURSIVE Joined(_)
Joined(lineage) ==
    IF Len(lineage) = 1 THEN Pad3(lineage[1])
    ELSE Pad3(Head(lineage)) \o "-" \o Joined(Tail(lineage))
_format_subcluster_id(prefix, lineage) == prefix \o "-" \o Joined(lineage)

\* subclusters.py 238-262: a parent chain that never reaches a root
ParentOf(q, key) == (CHOOSE i \in DOMAIN q : q[i].key = key)
RECURSIVE ReachesRoot(_, _, _)
ReachesRoot(q, key, steps) ==
    IF key = NoParent THEN TRUE
    ELSE IF steps = 0 THEN FALSE
    ELSE ReachesRoot(q, q[ParentOf(q, key)].parent_key, steps - 1)
_validate_for_cycles(q) ==
    IF \A i \in DOMAIN q : ReachesRoot(q, q[i].key, Len(q)) THEN NoError
    ELSE Error("SubClusterTopologyError", "Cycle detected in sub-cluster hierarchy")

\* subclusters.py 197-219: assign.  A materialised sub-cluster keeps here the
\* key of the specification it was built from.
Children(q, parent_key) == SelectSeq(q, LAMBDA spec : spec.parent_key = parent_key)
RECURSIVE Flattened(_)
Flattened(lists) == IF lists = << >> THEN << >> ELSE Head(lists) \o Flattened(Tail(lists))
RECURSIVE assign(_, _, _, _, _)
assign(q, prefix, parent_key, parent_id, lineage_prefix) ==
    LET ordered == sorted(Children(q, parent_key))
    IN  Flattened([ordinal \in DOMAIN ordered |->
            LET spec == ordered[ordinal]
                lineage == Append(lineage_prefix, ordinal)
                subcluster_id == _format_subcluster_id(prefix, lineage)
            IN  <<[key |-> spec.key, subcluster_id |-> subcluster_id,
                   parent_subcluster_id |-> parent_id, lineage |-> lineage,
                   store_ids |-> spec.store_ids]>>
                    \o assign(q, prefix, spec.key, subcluster_id, lineage)])

\* subclusters.py 164-225
build_subcluster_hierarchy(anchor_id, q) ==
    LET keys == {q[i].key : i \in DOMAIN q}
        materialised == assign(q, anchor_id, NoParent, NoParent, << >>)
    IN  IF q = << >> THEN [raised |-> NoError, subclusters |-> << >>]
        ELSE IF \E i \in DOMAIN q : \E j \in DOMAIN q : i < j /\ q[i].key = q[j].key
        THEN [raised |-> Error("SubClusterTopologyError",
                               "Duplicate sub-cluster specification key"),
              subclusters |-> << >>]
        ELSE IF \E i \in DOMAIN q : q[i].parent_key \notin keys \cup {NoParent}
        THEN [raised |-> Error("SubClusterTopologyError",
                               "Sub-cluster references unknown parent"),
              subclusters |-> << >>]
        ELSE IF _validate_for_cycles(q) # NoError
        THEN [raised |-> _validate_for_cycles(q), subclusters |-> << >>]
        ELSE IF Len(materialised) # Len(q)
        THEN [raised |-> Error("SubClusterTopologyError",
                               "Failed to materialise all sub-cluster specifications"),
              subclusters |-> << >>]
        ELSE [raised |-> NoError, subclusters |-> materialised]

InitClusters ==
    /\ pc = "clusters"
    /\ prior = NoTable /\ posterior = NoTable
    /\ lambda_weight = None /\ omega = 0 /\ output = NoTable
    /\ PipelineIdle
    /\ ScoringIdle
    /\ args = Unset /\ datasets = Unset /\ effects = << >> /\ cli_error = NoError
    /\ specs \in SpecSequences
    /\ hierarchy = Unset

BuildSubclusterHierarchy ==
    /\ pc = "clusters"
    /\ hierarchy = Unset
    /\ hierarchy' = [none |-> FALSE] @@ build_subcluster_hierarchy("anchor", specs)
    /\ UNCHANGED <<pc, blendVars, pipelineVars, scoringVars, cliVars, specs>>

NextClusters == BuildSubclusterHierarchy

SpecClusters == InitClusters /\ [][NextClusters]_vars

\* ------------------------------------------------------- blender: claims
Blended == pc = "blended" /\ ~output.none
Rows == IF output.none THEN {} ELSE {output.rows[id] : id \in DOMAIN output.rows}

PriorScores(r) == notna(r.ValuePrior) \/ notna(r.YieldPrior)
PosteriorScores(r) == notna(r.ValuePosterior) \/ notna(r.YieldPosterior)
InUnit(x) == 0 <= x /\ x <= ONE
InScale(x) == 1 * Unit <= x /\ x <= 5 * Unit

FieldResolved(final, p, q) ==
    /\ (notna(p) /\ notna(q)) =>
            notna(final) /\ WeightDen * final = (ONE - omega) * p + omega * q
    /\ (notna(p) /\ ~notna(q)) => final = p
    /\ (~notna(p) /\ notna(q)) => final = q
    /\ (~notna(p) /\ ~notna(q)) => final = NaN

\* C2: Value and Yield are resolved independently per store: both present
\* gives (1-omega)*prior + omega*posterior, exactly one present gives that
\* one unchanged, neither gives undefined.
C2_FieldsResolvedIndependently ==
    \A r \in Rows :
        /\ FieldResolved(r.Value, r.ValuePrior, r.ValuePosterior)
        /\ FieldResolved(r.Yield, r.YieldPrior, r.YieldPosterior)

\* the spec's scenario (3.2, 3.5, omega 0.5 gives 3.35) on a row whose Yield
\* has no source at all
C2_Witness ==
    /\ Blended
    /\ omega = 1
    /\ \E r \in Rows :
        /\ r.ValuePrior = 128 /\ r.ValuePosterior = 140 /\ r.Value = 134
        /\ r.YieldPrior = NaN /\ r.YieldPosterior = NaN /\ r.Yield = NaN

\* (1 - w) * p + w * q over optional operands: undefined when w or an operand
\* it multiplies is undefined
Applied(final, w, p, q) ==
    IF w = 0 THEN final = p
    ELSE IF w = ONE THEN final = q
    ELSE IF notna(w) /\ notna(p) /\ notna(q)
         THEN notna(final) /\ WeightDen * final = (ONE - w) * p + w * q
    ELSE final = NaN

\* C3 as stated: the Omega recorded on a row is the weight applied to both of
\* its fields: Omega 0 gives the prior fields, Omega 1 the posterior fields,
\* otherwise each field is (1-Omega)*prior + Omega*posterior.
C3_Original ==
    \A r \in Rows :
        /\ Applied(r.Value, r.Omega, r.ValuePrior, r.ValuePosterior)
        /\ Applied(r.Yield, r.Omega, r.YieldPrior, r.YieldPosterior)

\* C4: with lambda supplied, a row with all four of prior/posterior Value and
\* Yield defined has Composite = clamp(lambda*Value + (1-lambda)*Yield, 1, 5)
\* over the final fields of the same row.
C4_CompositeIsClampedMix ==
    lambda_weight # None =>
        \A r \in Rows :
            (notna(r.ValuePrior) /\ notna(r.ValuePosterior)
                /\ notna(r.YieldPrior) /\ notna(r.YieldPosterior)) =>
            LET twice == lambda_weight * r.Value + (ONE - lambda_weight) * r.Yield
            IN  /\ notna(r.Value) /\ notna(r.Yield) /\ notna(r.Composite)
                /\ twice < WeightDen * Unit => r.Composite = 1 * Unit
                /\ twice > WeightDen * 5 * Unit => r.Composite = 5 * Unit
                /\ (WeightDen * Unit <= twice /\ twice <= WeightDen * 5 * Unit)
                        => WeightDen * r.Composite = twice

\* lambda = 1 and omega = 1 on posterior Value 6.0: the mix is 6.0, clamped to 5.0
C4_Witness ==
    /\ Blended
    /\ lambda_weight = ONE
    /\ \E r \in Rows :
        /\ notna(r.ValuePrior) /\ notna(r.YieldPrior) /\ notna(r.YieldPosterior)
        /\ r.ValuePosterior = 240 /\ r.Value = 240 /\ r.Composite = 5 * Unit

\* C5 as stated: a row that does not have 'lambda supplied and final Value and
\* Yield defined' has Composite = CompositePrior (undefined when that is).
C5_Original ==
    \A r \in Rows :
        ~(lambda_weight # None /\ notna(r.Value) /\ notna(r.Yield)) =>
            r.Composite = r.CompositePrior

\* C6: when every input Value/Yield/Composite lies in [1,5] and the weights in
\* [0,1], every defined Value, Yield and Composite of the output lies in [1,5].
InputsInScale ==
    /\ \A id \in Ids(prior) : \A c \in {"Value", "Yield", "Composite"} :
            notna(prior.rows[id][c]) => InScale(prior.rows[id][c])
    /\ \A id \in Ids(posterior) : \A c \in {"Value", "Yield"} :
            notna(posterior.rows[id][c]) => InScale(posterior.rows[id][c])
    /\ InUnit(omega)
    /\ lambda_weight # None => InUnit(lambda_weight)

C6_BlendedScoresInScale ==
    InputsInScale =>
        \A r \in Rows :
            /\ notna(r.Value) => InScale(r.Value)
            /\ notna(r.Yield) => InScale(r.Yield)
            /\ notna(r.Composite) => InScale(r.Composite)

C6_Witness ==
    /\ Blended
    /\ InputsInScale
    /\ omega = 1 /\ lambda_weight = 1
    /\ \E r \in Rows : r.Value = 134 /\ r.Yield = 130 /\ r.Composite = 132
    /\ \E r \in Rows : ~PriorScores(r) /\ r.Yield = 180 /\ r.Composite = NaN

\* ------------------------------------------------ claims on the pipeline
PredictSucceeded == call.op = "predict" /\ call.raised = NoError
PredictedIndex == IF PredictSucceeded THEN DOMAIN predictions.rows ELSE {}
\* the visits of a store id in the observation log the pipeline was fitted on
VisitsOf(id) == Cardinality({k \in DOMAIN observations : observations[k].StoreId = id})
WindowOf(i) == _window_lookup(call.stores.rows[i], call.stores)

\* C7: after a successful predict the method tag of every row is fixed by the
\* number v of observations of its store id and the threshold T alone:
\* v >= T gives GLM, 0 < v < T gives Hier, v = 0 (also a store never observed)
\* gives kNN.
C7_MethodByVisitCount ==
    \A i \in PredictedIndex :
        LET row == predictions.rows[i]
            v == VisitsOf(row.StoreId)
        IN  /\ v >= min_samples_glm => row.Method = "GLM"
            /\ (0 < v /\ v < min_samples_glm) => row.Method = "Hier"
            /\ v = 0 => row.Method = "kNN"

C7_Witness ==
    /\ PredictSucceeded
    /\ \E i, j, k \in PredictedIndex :
        /\ predictions.rows[i].Method = "GLM"
        /\ VisitsOf(predictions.rows[i].StoreId) = min_samples_glm
        /\ predictions.rows[j].Method = "Hier"
        /\ predictions.rows[k].Method = "kNN"

C9_Original ==
    \A i \in PredictedIndex :
        LET row == predictions.rows[i]
            ref == ecdf_reference_.rows
            inWindow == {k \in DOMAIN ref : ref[k].Window = WindowOf(i)}
            pool == IF inWindow = {} THEN DOMAIN ref ELSE inWindow
            below == {k \in pool : RLe(ref[k].Theta, row.Theta)}
        IN  /\ row.ECDF_q = Rat(Cardinality(below), Cardinality(pool))
            /\ row.Yield = RMax(RInt(1), RMin(RInt(5),
                                RAdd(RInt(1), RMul(RInt(4), row.ECDF_q))))

\* C10: in one successful predict, of two rows resolved against the same window
\* the one with the smaller or equal final theta has the smaller or equal ECDF
\* quantile, also when the window has no reference rows.
C10_QuantileMonotoneInTheta ==
    \A i, j \in PredictedIndex :
        (WindowOf(i) = WindowOf(j)
            /\ RLe(predictions.rows[i].Theta, predictions.rows[j].Theta))
        => RLe(predictions.rows[i].ECDF_q, predictions.rows[j].ECDF_q)

\* two rows of an absent window looked up in a reference of several windows
C10_Witness ==
    /\ PredictSucceeded
    /\ \E i, j \in PredictedIndex :
        LET ref == ecdf_reference_.rows
        IN  /\ WindowOf(i) = WindowOf(j)
            /\ \A k \in DOMAIN ref : ref[k].Window # WindowOf(i)
            /\ \E k, l \in DOMAIN ref : ref[k].Window # ref[l].Window
            /\ RLt(predictions.rows[i].Theta, predictions.rows[j].Theta)
            /\ RLt(predictions.rows[i].ECDF_q, predictions.rows[j].ECDF_q)

\* C11: the smoothing pass leaves every visited store as it was: a row whose
\* store has visits > 0 records an adjustment of exactly 0 for theta and value
\* and keeps its observed estimate (for a GLM row with an observed rate of 0,
\* the model's prediction); only rows with 0 visits carry an adjustment.
TraceOf(i) == trace_records_.rows[ToString(predictions.rows[i].StoreId)]
C11_SmoothingKeepsVisitedStores ==
    \A i \in PredictedIndex :
        LET row == predictions.rows[i]
            trace == TraceOf(i)
            seen == store_summary_.rows[row.StoreId]
        IN  /\ VisitsOf(row.StoreId) > 0 =>
                /\ trace.adjacency.theta = RInt(0)
                /\ trace.adjacency.value = RInt(0)
                /\ row.Theta = IF row.Method = "GLM" /\ seen.theta_mean = RInt(0)
                               THEN trace.baseline.theta_prediction
                               ELSE seen.theta_mean
                /\ row.Value = RClip(seen.value_mean, RInt(1), RInt(5))
            /\ (trace.adjacency.theta # RInt(0) \/ trace.adjacency.value # RInt(0))
                => VisitsOf(row.StoreId) = 0

\* two visited stores with different estimates next to a smoothed unvisited one
C11_Witness ==
    /\ PredictSucceeded
    /\ \E i, j, k \in PredictedIndex :
        /\ VisitsOf(predictions.rows[i].StoreId) > 0
        /\ VisitsOf(predictions.rows[j].StoreId) > 0
        /\ predictions.rows[i].Theta # predictions.rows[j].Theta
        /\ VisitsOf(predictions.rows[k].StoreId) = 0
        /\ TraceOf(k).adjacency.theta # RInt(0)

\* ------------------------------------------- claims on the prior scoring
PriorScored == scoring_call.fn = "compute_prior_score" /\ ~scoring_result.none
\* the sums of the prior formula for the scored call, from the registered
\* tables (those of "Unknown" for a type that is not registered)
RegisteredType ==
    IF scoring_call.args.store_type \in
            {"Thrift", "Antique", "Vintage", "Flea/Surplus", "Unknown"}
    THEN scoring_call.args.store_type ELSE "Unknown"
DeltaOf(n) ==
    IF scoring_call.args.adjacency_adjustment.none THEN RInt(0)
    ELSE scoring_call.args.adjacency_adjustment.v[n]
ValueSum ==
    LET a == scoring_call.args
        c == AFFLUENCE_COEFFICIENTS[RegisteredType]
    IN  RAdd(RAdd(RAdd(TYPE_BASELINES[RegisteredType].value,
                       RMul(c.alpha_income, a.median_income_norm)),
                  RMul(c.alpha_high_income, a.pct_hh_100k_norm)), DeltaOf(1))
YieldSum ==
    LET a == scoring_call.args
        c == AFFLUENCE_COEFFICIENTS[RegisteredType]
    IN  RAdd(RAdd(TYPE_BASELINES[RegisteredType].yield_score,
                  RMul(c.beta_renter, a.pct_renter_norm)), DeltaOf(2))
Clamped(x) == RMax(RInt(1), RMin(RInt(5), x))
SpecExample ==
    /\ scoring_call.args.store_type = "Thrift"
    /\ scoring_call.args.median_income_norm = Rat(95, 100)
    /\ scoring_call.args.pct_hh_100k_norm = Rat(90, 100)
    /\ scoring_call.args.pct_renter_norm = Rat(20, 100)
    /\ scoring_call.args.adjacency_adjustment.none

\* C12 as stated: every call returns (no error), Value is the clamped value
\* sum and Yield the clamped yield sum of the registered or "Unknown" entry.
C12_Original ==
    PriorScored =>
        /\ scoring_result.raised = NoError
        /\ scoring_result.result.value = Clamped(ValueSum)
        /\ scoring_result.result.yield_score = Clamped(YieldSum)

\* C12: every call returns (no error); with clamping enabled Value and Yield
\* are the clamped sums of the registered or "Unknown" entry, the adjacency
\* adjustment added before clamping; with clamping disabled they are the sums
\* themselves.  Thrift with 0.95/0.90/0.20 gives 3.725 and 3.30.
C12_PriorScoreFormula ==
    PriorScored =>
        LET clamp == scoring_call.args.clamp
        IN  /\ scoring_result.raised = NoError
            /\ scoring_result.result.value =
                    IF clamp THEN Clamped(ValueSum) ELSE ValueSum
            /\ scoring_result.result.yield_score =
                    IF clamp THEN Clamped(YieldSum) ELSE YieldSum
            /\ SpecExample =>
                /\ scoring_result.result.value = Rat(3725, 1000)
                /\ scoring_result.result.yield_score = Rat(330, 100)

\* a store type that is not registered, scored with an adjacency adjustment
C12_Witness ==
    /\ PriorScored
    /\ scoring_call.args.store_type = "Bookstore"
    /\ scoring_call.args.clamp
    /\ scoring_call.args.median_income_norm = Rat(95, 100)
    /\ scoring_call.args.adjacency_adjustment = Some(<<Rat(1, 2), Rat(0 - 1, 2)>>)
    /\ scoring_result.result.value = Rat(387, 100)
    /\ scoring_result.result.yield_score = Rat(244, 100)

\* C13: with clamping enabled, Value, Yield and (when lambda is supplied)
\* Composite of every result lie in [1,5], for every store type, affluence
\* input, adjacency adjustment and lambda in [0,1]; Vintage with 10, 10, -10
\* gives 5 for all three, whatever lambda is.
InPriorScale(x) == RLe(RInt(1), x) /\ RLe(x, RInt(5))
VintageExtreme ==
    /\ scoring_call.args.store_type = "Vintage"
    /\ scoring_call.args.median_income_norm = RInt(10)
    /\ scoring_call.args.pct_hh_100k_norm = RInt(10)
    /\ scoring_call.args.pct_renter_norm = RInt(0 - 10)
    /\ scoring_call.args.adjacency_adjustment.none
C13_ClampedPriorScoresInScale ==
    (PriorScored /\ scoring_call.args.clamp) =>
        LET r == scoring_result.result
        IN  /\ InPriorScale(r.value)
            /\ InPriorScale(r.yield_score)
            /\ ~r.composite.none => InPriorScale(r.composite.v)
            /\ VintageExtreme =>
                /\ r.value = RInt(5) /\ r.yield_score = RInt(5)
                /\ ~r.composite.none => r.composite.v = RInt(5)

C13_Witness ==
    /\ PriorScored /\ scoring_call.args.clamp /\ VintageExtreme
    /\ scoring_call.args.lambda_weight = Some(Rat(1, 2))
    /\ scoring_result.result.composite = Some(RInt(5))

\* C14 as stated: the composite is absent exactly when lambda is not supplied,
\* and otherwise equals clamp(lambda * Value + (1 - lambda) * Yield) of the
\* Value and Yield returned in the same result.
C14_Original ==
    PriorScored =>
        LET r == scoring_result.result
            lambda == scoring_call.args.lambda_weight
        IN  /\ r.composite.none <=> lambda.none
            /\ ~lambda.none =>
                r.composite.v =
                    Clamped(RAdd(RMul(lambda.v, r.value),
                                 RMul(RSub(RInt(1), lambda.v), r.yield_score)))

\* C15: posterior overrides are recorded on the result and change nothing
\* else: the call repeated with any other overrides returns the same Value,
\* Yield, Composite, baselines, contributions and adjacency adjustments.
ScoreFields ==
    {"value", "yield_score", "composite", "baseline_value", "baseline_yield",
     "income_contribution", "high_income_contribution", "renter_contribution",
     "adjacency_value_adjustment", "adjacency_yield_adjustment"}
C15_OverridesRecordedNotApplied ==
    PriorScored =>
        LET r == scoring_result.result
            overrides == scoring_call.args.posterior_overrides
        IN  /\ r.posterior_value_override =
                    IF overrides.none THEN Absent ELSE overrides.v[1]
            /\ r.posterior_yield_override =
                    IF overrides.none THEN Absent ELSE overrides.v[2]
            /\ \A other \in PosteriorOverrides :
                LET twin == compute_prior_score(
                                [scoring_call.args EXCEPT !.posterior_overrides = other])
                IN  \A f \in ScoreFields : twin[f] = r[f]

\* overrides that differ from the scores the call returns
C15_Witness ==
    /\ PriorScored
    /\ scoring_call.args.posterior_overrides = Some(<<Some(Rat(9, 2)), Some(Rat(3, 2))>>)
    /\ scoring_result.result.posterior_value_override = Some(Rat(9, 2))
    /\ scoring_result.result.value # Rat(9, 2)
    /\ scoring_result.result.yield_score # Rat(3, 2)

\* C16: a store without neighbours is left as it is.  knn_adjacency_smoothing
\* of a single-store frame, for every k >= 1 and smoothing factor in [0,1],
\* returns adjustments of exactly 0 and smoothed scores equal to the inputs;
\* and a predict on a stores table without any visited store leaves every row
\* at the model's prediction, with adjustments of exactly 0.
SmoothingReturned == scoring_call.fn = "knn_adjacency_smoothing" /\ ~scoring_result.none
SingleStoreCall ==
    /\ SmoothingReturned
    /\ Len(scoring_call.args.frame) = 1
    /\ scoring_call.args.k >= 1
    /\ RLe(RInt(0), scoring_call.args.smoothing_factor)
    /\ RLe(scoring_call.args.smoothing_factor, RInt(1))
NoVisitedStore ==
    /\ PredictSucceeded
    /\ \A i \in PredictedIndex : VisitsOf(predictions.rows[i].StoreId) = 0
C16_NoNeighboursNoChange ==
    /\ SingleStoreCall =>
        /\ scoring_result.raised = NoError
        /\ Len(scoring_result.result) = 1
        /\ scoring_result.result[1].value_adjustment = RInt(0)
        /\ scoring_result.result[1].yield_adjustment = RInt(0)
        /\ scoring_result.result[1].value_smoothed = scoring_call.args.frame[1].Value
        /\ scoring_result.result[1].yield_smoothed = scoring_call.args.frame[1].Yield
    /\ NoVisitedStore =>
        \A i \in PredictedIndex :
            /\ TraceOf(i).adjacency.theta = RInt(0)
            /\ TraceOf(i).adjacency.value = RInt(0)
            /\ predictions.rows[i].Theta = TraceOf(i).baseline.theta_prediction
            /\ predictions.rows[i].Value =
                    RClip(TraceOf(i).baseline.value_prediction, RInt(1), RInt(5))

\* the single store smoothed with k = 3 and factor 0.5
C16_Witness ==
    /\ SingleStoreCall
    /\ scoring_call.args.k = 3
    /\ scoring_call.args.smoothing_factor = Rat(1, 2)
    /\ scoring_result.result[1].value_smoothed = scoring_call.args.frame[1].Value

\* C17 as stated: each of the four input-error conditions of the last call
\* (fit with an empty observations frame; fit asked for a feature column the
\* stores table lacks; fit whose observed stores and stores table share no
\* store id; predict on a pipeline no fit has touched) raises an error, and two
\* calls that fail on different conditions raise errors of different kinds.
ObservedIds == {observations[k].StoreId : k \in DOMAIN observations}
TableIds(st) == {st.rows[i].StoreId : i \in DOMAIN st.rows}
InputErrorCondition ==
    IF call.op = "fit" /\ call.empty THEN "empty observations"
    ELSE IF call.op = "fit" /\ call.feature_columns # Unset
            /\ ~(call.feature_columns.columns \subseteq call.stores.columns)
    THEN "feature column absent"
    ELSE IF call.op = "fit" /\ ObservedIds \cap TableIds(call.stores) = {}
    THEN "no overlap"
    ELSE IF call.op = "predict" /\ store_summary_.none THEN "predict before fit"
    ELSE "none"
C17_EveryInputErrorRaises ==
    InputErrorCondition # "none" => call.raised # NoError
C17_Original ==
    /\ [](C17_EveryInputErrorRaises)
    /\ [][(/\ InputErrorCondition # "none"
           /\ InputErrorCondition' # "none"
           /\ InputErrorCondition # InputErrorCondition')
          => call.raised.type # call'.raised.type]_vars

\* C18: when the IRLS solver fails during a fit that passed the input checks
\* (singular weighted design or no convergence), fit raises nothing, leaves
\* the ridge solution tagged Poisson as the yield model, fits the value model
\* and builds the ECDF reference; a predict that follows on a table holding
\* the fitted feature columns returns.
IrlsFailed == _solve_glm(solution).raised # NoError
FitPastInputChecks == call.op = "fit" /\ InputErrorCondition = "none"
RecoveredFit ==
    /\ call.raised = NoError
    /\ ~yield_model_.none
    /\ yield_model_.model = _GLMResult(solution.ridge, "Poisson")
    /\ ~value_model_.none
    /\ value_model_.model = solution.value
    /\ ~window_column_.none
    /\ ~ecdf_reference_.none
C18_IrlsFailureNeverSurfaced ==
    /\ []((FitPastInputChecks /\ IrlsFailed) => RecoveredFit)
    /\ [][(/\ FitPastInputChecks /\ IrlsFailed
           /\ call'.op = "predict"
           /\ feature_columns_.columns \subseteq call'.stores.columns)
          => call'.raised = NoError]_vars
C18_Witness ==
    /\ PredictSucceeded
    /\ IrlsFailed
    /\ solution.alpha > 0
    /\ yield_model_.model.family = "Poisson"

\* ------------------------------------------------ claims on trace records
\* the names the three stages give to the entries of their sections
TraceKeys ==
    {"schema_version", "store_type", "value", "yield", "composite",
     "income", "high_income", "renter", "lambda_weight", "parameters_hash",
     "posterior_overrides_present", "theta_prediction", "value_prediction",
     "X", "Metro", "theta", "visits", "dwell_total", "items_total", "value_mean",
     "theta_observed", "method", "theta_uncertainty", "value_uncertainty",
     "yield_family", "min_samples_glm", "knn_k", "knn_smoothing_factor",
     "theta_final", "yield_final", "value_final", "credibility", "ecdf_quantile",
     "omega", "value_prior", "value_posterior", "yield_prior", "yield_posterior",
     "composite_prior", "composite_final"}
Sections == {SectionNames[n] : n \in DOMAIN SectionNames}
SectionKeys == [section \in Sections |-> {FlatKey(section, key) : key \in TraceKeys}]
DottedKeys == UNION {SectionKeys[section] : section \in Sections}
\* every trace of the state with the flattened row emitted for it
PriorTraceRows ==
    IF scoring_call.fn = "compute_prior_score" /\ ~scoring_result.none
    THEN {<<scoring_result.result.trace.v, to_trace(scoring_result.result)>>}
    ELSE {}
PosteriorTraceRows ==
    {<<trace_records_.rows[key], iter_traces[key]>> : key \in DOMAIN iter_traces}
BlendTraceRows ==
    IF pc = "blended"
    THEN LET rows == _build_blend_trace_records(output, lambda_weight)
         IN  {<<BlendTraceRecord(id, output.rows[id], lambda_weight), rows[id]>> :
                id \in DOMAIN rows}
    ELSE {}
TraceRows == PriorTraceRows \cup PosteriorTraceRows \cup BlendTraceRows
WellFormedRow(record, row) ==
    /\ {"store_id", "stage", FlatKey("metadata", "schema_version")} \subseteq DOMAIN row
    /\ row["store_id"] = record.store_id
    /\ row["stage"] = record.stage
    /\ DOMAIN row \ {"store_id", "stage"} \subseteq DottedKeys
    /\ \A section \in Sections :
            DOMAIN record[section] = {} => SectionKeys[section] \cap DOMAIN row = {}

TraceKeysOf(st) == {ToString(id) : id \in TableIds(st)}
YieldsTracesOf(st, returned) ==
    LET yielded == iter_traces
    IN  /\ DOMAIN yielded = TraceKeysOf(st)
        /\ \A key \in DOMAIN yielded :
                LET row == yielded[key]
                IN  /\ row["stage"] = "posterior"
                    /\ row["store_id"] = key
                    /\ \E i \in DOMAIN returned.rows :
                            /\ ToString(returned.rows[i].StoreId) = key
                            /\ row["scores.theta_final"] = returned.rows[i].Theta
                            /\ row["scores.yield_final"] = returned.rows[i].Yield
                            /\ row["scores.value_final"] = returned.rows[i].Value
                            /\ row["observations.method"] = returned.rows[i].Method
YieldsTracesOfCall == ~predictions.none /\ YieldsTracesOf(call.stores, predictions)
\* iter_traces reads nothing but trace_records_
KeepsTraces == UNCHANGED trace_records_
C20_Original ==
    /\ DOMAIN iter_traces = {}
    /\ [](call.op = "predict" =>
            IF call.raised = NoError THEN YieldsTracesOfCall
            ELSE DOMAIN iter_traces = {})
    /\ [][call'.op = "fit" => KeepsTraces]_vars

\* C20: iter_traces yields nothing before the first predict call that
\* returns; when the last call is a predict call that returned, it yields
\* exactly one posterior-stage trace for each store of that call's table, the
\* trace of the row the call computed for the store, and nothing of an earlier
\* call; a fit call and a predict call that raises change nothing of what it
\* yields.
C20_TracesOfLastReturnedPredict ==
    /\ DOMAIN iter_traces = {}
    /\ []((call.op = "predict" /\ call.raised = NoError) => YieldsTracesOfCall)
    /\ [][(call'.op = "fit" \/ (call'.op = "predict" /\ call'.raised # NoError))
            => KeepsTraces]_vars
C20_Witness ==
    /\ PredictSucceeded
    /\ call.stores = StoresLone
    /\ YieldsTracesOf(StoresLone, predictions)
    /\ Cardinality(DOMAIN iter_traces) = 1

\* ------------------------------------------------- the score command: claims
\* C21: a score run whose lambda or omega lies outside [0,1] fails with a
\* configuration error, in every mode, and has by then loaded no dataset,
\* invoked no stage and written no file.
C21_OutOfRange(w) == w # None /\ (w = NaN \/ w < 0 \/ w > WeightDen)
C21_Rejected == cli_error.type = "AtlasCliError" /\ effects = << >>
C21_WeightsRejectedAtBoundary ==
    (pc = "scored" /\ (C21_OutOfRange(args.lambda_weight) \/ C21_OutOfRange(args.omega)))
        => C21_Rejected
C21_Witness ==
    /\ pc = "scored"
    /\ args.mode = MODE_BLENDED /\ args.observations /\ datasets.stores = "normalised"
    /\ args.lambda_weight = None /\ args.omega = 1 + WeightDen
    /\ C21_Rejected

\* C22: the combined trace holds exactly the rows of the stages that ran and
\* whose include flag is set, prior rows first, then posterior rows, then
\* blend rows, in the combined trace format; the posterior-only trace holds
\* the posterior rows and nothing else, in the posterior trace format; a trace
\* target is written only with at least one row and only after the score
\* table passed validation and was written, and a run that returns writes
\* every target it was given rows for.
C22_Writes(what) ==
    {i \in DOMAIN effects : effects[i].kind = "write" /\ effects[i].what = what}
C22_Ran(stage) == \E i \in DOMAIN effects : effects[i] = Effect("invoke", stage)
C22_ScoreTable ==
    [none |-> FALSE, rows |-> effects[CHOOSE i \in C22_Writes("output") : TRUE].rows]
C22_RowsOf(stage) ==
    IF ~C22_Ran(stage) \/ C22_Writes("output") = {} THEN << >>
    ELSE IF stage = "prior" THEN _run_prior_scoring(StoresOf(datasets)).traces
    ELSE IF stage = "posterior" THEN _run_posterior_pipeline(StoresOf(datasets)).trace_rows
    ELSE BlendTraceList(C22_ScoreTable, args.lambda_weight)
C22_Included(flag, stage) == IF flag THEN C22_RowsOf(stage) ELSE << >>
C22_Combined ==
    C22_Included(args.include_prior_trace, "prior")
        \o C22_Included(args.include_posterior_trace, "posterior")
        \o C22_Included(args.include_blend_trace, "blend")
C22_AfterTheTable(i) ==
    \E v \in 1..(i - 1) : \E o \in (v + 1)..(i - 1) :
        /\ effects[v] = Effect("validate", "output")
        /\ o \in C22_Writes("output")
C22_Target(what, asked, format, rows) ==
    /\ Cardinality(C22_Writes(what)) <= 1
    /\ \A i \in C22_Writes(what) :
        /\ asked
        /\ effects[i].rows = rows /\ rows # << >>
        /\ effects[i].format = format
        /\ C22_AfterTheTable(i)
    /\ (cli_error = NoError /\ asked /\ rows # << >>) => C22_Writes(what) # {}
C22_TraceTargets ==
    pc = "scored" =>
        /\ \A stage \in {"prior", "posterior", "blend"} :
                \A k \in DOMAIN C22_RowsOf(stage) : C22_RowsOf(stage)[k]["stage"] = stage
        /\ C22_Target("trace_out", args.trace_out, args.trace_format, C22_Combined)
        /\ C22_Target("posterior_trace", args.posterior_trace,
                      args.posterior_trace_format, C22_RowsOf("posterior"))
C22_Witness ==
    /\ pc = "scored" /\ cli_error = NoError
    /\ args.mode = MODE_BLENDED
    /\ ~args.include_prior_trace /\ args.include_posterior_trace /\ args.include_blend_trace
    /\ args.trace_format = "csv" /\ args.posterior_trace_format = "jsonl"
    /\ \E i \in C22_Writes("trace_out") : \E j \in C22_Writes("posterior_trace") :
        /\ i < j
        /\ Len(effects[i].rows) = MaxStores + MaxStores
        /\ effects[i].rows[1]["stage"] = "posterior"
        /\ effects[i].rows[MaxStores + 1]["stage"] = "blend"
        /\ Len(effects[j].rows) = MaxStores

\* ------------------------------------------------- the ECDF cache: claims
\* C23: a fit that is given a cache path holding the reference of an earlier
\* fit uses that reference and leaves the file alone; the file changes only
\* in a fit that returned, found no reference in it and built one.
C23_FitReturns == call'.op = "fit" /\ call'.raised = NoError
C23_CacheRead ==
    (C23_FitReturns /\ ecdf_cache_path # "None" /\ ~cache_file.none)
        => (ecdf_reference_'.rows = cache_file.rows /\ cache_file' = cache_file)
C23_CacheWrittenAfterFreshFit ==
    cache_file' # cache_file
        => (C23_FitReturns /\ cache_file.none /\ cache_file'.rows = ecdf_reference_'.rows)
C23_Original == [][C23_CacheRead /\ C23_CacheWrittenAfterFreshFit]_vars

\* ------------------------------------------- posterior: repeated predictions
\* C24: a predict call leaves the fitted state as it was, and the rows a
\* predict call returned are the rows the fitted state gives for its stores
\* table: a second predict call with the same table returns the same rows,
\* ECDF_q included.
C24_RowsFor(st) ==
    LET rows == Predicted(st)
    IN  [none |-> FALSE, rows |-> [i \in DOMAIN rows |-> PublicRow(rows[i])]]
C24_PredictReturned == call.op = "predict" /\ call.raised = NoError
C24_PredictKeepsFittedState == call'.op = "predict" => UNCHANGED fittedVars
C24_SameTableSameRows ==
    (C24_PredictReturned /\ call'.op = "predict" /\ call'.stores = call.stores)
        => (call'.raised = NoError /\ predictions' = predictions)
C24_PredictIsRepeatable ==
    /\ [](C24_PredictReturned => predictions = C24_RowsFor(call.stores))
    /\ [][C24_PredictKeepsFittedState /\ C24_SameTableSameRows]_vars
C24_Witness ==
    /\ C24_PredictReturned
    /\ call.stores = StoresFull
    /\ window_column_.column = "Metro"
    /\ \E i \in DOMAIN predictions.rows : \E j \in DOMAIN predictions.rows :
            predictions.rows[i].ECDF_q # predictions.rows[j].ECDF_q

\* ------------------------------------------------ prior scoring: the trace
\* C25: the dictionary to_trace returns for a result of compute_prior_score
\* holds the result's value under 'value' and has the keys 'baseline_value',
\* 'baseline_yield', 'income_contribution' and 'posterior_value_override'.
C25_Keys ==
    {"value", "baseline_value", "baseline_yield", "income_contribution",
     "posterior_value_override"}
C25_Original ==
    (scoring_call.fn = "compute_prior_score" /\ ~scoring_result.none)
        => LET trace == to_trace(scoring_result.result)
           IN  /\ C25_Keys \subseteq DOMAIN trace
               /\ trace["value"] = scoring_result.result.value

\* ------------------------------------------- posterior: estimates by state
\* C26: what predict takes as a store's theta and value before the smoothing
\* pass.  GLM: the observed mean theta when it is above 0, else the model's
\* prediction, and the observed mean value; Hier: the observed means, also for
\* an observed theta of 0; kNN: the model's predictions.  (Every observed
\* mean of the model is a finite number.)
C26_Theta(method, observed, predicted) ==
    IF method = "GLM" THEN (IF RLt(RInt(0), observed) THEN observed ELSE predicted)
    ELSE IF method = "Hier" THEN observed
    ELSE predicted
C26_Value(method, observed, predicted) == IF method = "kNN" THEN predicted ELSE observed
Orders(S) ==
    {order \in [1..Cardinality(S) -> S] :
        \A i \in DOMAIN order : \A j \in DOMAIN order : i # j => order[i] # order[j]}
C27_PosteriorPass ==
    (call.op = "predict" /\ call.raised = NoError) =>
        LET rows == call.stores.rows
            res == [i \in DOMAIN rows |-> Resolve(rows[i])]
            sparse == {i \in DOMAIN rows : res[i].visits = 0}
            anchor == {i \in DOMAIN rows : res[i].visits > 0}
            before == [i \in DOMAIN rows |-> [theta |-> res[i].theta, value |-> res[i].value]]
        IN  (sparse # {} /\ anchor # {}) =>
                \A order \in Orders(sparse) :
                    LET smoothed == SparseLoop(rows, res, anchor, knn_k,
                                               knn_smoothing_factor, order, before)
                    IN  \A i \in DOMAIN rows :
                            /\ predictions.rows[i].Theta = smoothed[i].theta
                            /\ predictions.rows[i].Value = value_final(smoothed[i].value)
C27_LoopRan ==
    /\ scoring_call.fn = "knn_adjacency_smoothing"
    /\ ~scoring_result.none /\ scoring_result.raised = NoError
    /\ scoring_call.args.smoothing_factor # RInt(0)
    /\ Len(scoring_call.args.frame) >= 2 /\ scoring_call.args.k >= 1
C27_AdjacencyPass ==
    C27_LoopRan =>
        LET a == scoring_call.args
            k == IF Len(a.frame) <= a.k THEN Len(a.frame) - 1 ELSE a.k
        IN  \A order \in Orders(DOMAIN a.frame) :
                LoopedFrame(a.frame, k, a.smoothing_factor, order) = scoring_result.result
C27_SmoothingOrderIndependent == C27_PosteriorPass /\ C27_AdjacencyPass
C27_Witness ==
    /\ C27_LoopRan
    /\ Len(scoring_call.args.frame) = MaxFrame
    /\ scoring_call.args.k = 1
    /\ \A i \in DOMAIN scoring_result.result :
            scoring_result.result[i].value_adjustment # RInt(0)

\* ------------------------------------------------- posterior: credibility
\* C28: Cred = clamp(1 / (1 + max(thetaSE / (theta + 1e-6), 0) + max(valueSE / 2, 0)), 0, 1)
\* with the theta the row reports (after smoothing), times 0.8 for a store
\* tagged kNN and as it is for GLM and Hier; a kNN store never exceeds 0.8.
C28_Base(theta_se, value_se, theta) ==
    LET theta_part == RMax(RDiv(theta_se, RAdd(theta, Rat(1, 1000000))), RInt(0))
        value_part == RMax(RDiv(value_se, RInt(2)), RInt(0))
    IN  RClip(RDiv(RInt(1), RAdd(RInt(1), RAdd(theta_part, value_part))), RInt(0), RInt(1))
C28_CredibilityFormula ==
    (call.op = "predict" /\ call.raised = NoError) =>
        \A i \in DOMAIN predictions.rows :
            LET row == predictions.rows[i]
                observed == trace_records_.rows[ToString(row.StoreId)].observations
                base == C28_Base(observed.theta_uncertainty, observed.value_uncertainty,
                                 row.Theta)
            IN  /\ row.Method = "kNN" =>
                        (row.Cred = RMul(base, Rat(8, 10)) /\ RLe(row.Cred, Rat(8, 10)))
                /\ row.Method \in {"GLM", "Hier"} => row.Cred = base
C28_Witness ==
    /\ call.op = "predict" /\ call.raised = NoError
    /\ \E i \in DOMAIN predictions.rows : \E j \in DOMAIN predictions.rows :
            LET row == predictions.rows[i]
                trace == trace_records_.rows[ToString(row.StoreId)]
                other == predictions.rows[j]
            IN  /\ row.Method = "kNN" /\ trace.adjacency.theta # RInt(0)
                /\ RLt(RInt(0), row.Cred)
                /\ row.Cred # RMul(Rat(8, 10),
                        C28_Base(trace.observations.theta_uncertainty,
                                 trace.observations.value_uncertainty,
                                 RSub(row.Theta, trace.adjacency.theta)))
                /\ other.Method = "GLM" /\ RLt(other.Cred, RInt(1))

\* ------------------------------------------------ sub-cluster nesting: claims
\* C29: the identifier, lineage and parent identifier build_subcluster_hierarchy
\* gives to the specification of a key are the same for every order of the
\* specifications in the sequence passed, and every sub-cluster comes after
\* its parent in the hierarchy returned.
C29_Built == ~hierarchy.none /\ hierarchy.raised = NoError
C29_Of(subclusters, key) ==
    LET found == subclusters[CHOOSE i \in DOMAIN subclusters : subclusters[i].key = key]
    IN  <<found.subcluster_id, found.lineage, found.parent_subcluster_id>>
C29_Reordered(order) == [i \in DOMAIN specs |-> specs[order[i]]]
C29_ParentsFirst ==
    \A i \in DOMAIN hierarchy.subclusters :
        LET parent == hierarchy.subclusters[i].parent_subcluster_id
        IN  parent # NoParent =>
                \E j \in 1..(i - 1) : hierarchy.subclusters[j].subcluster_id = parent
C29_Original ==
    C29_Built =>
        /\ C29_ParentsFirst
        /\ \A order \in Orders(DOMAIN specs) :
                LET other == build_subcluster_hierarchy("anchor", C29_Reordered(order))
                IN  /\ other.raised = NoError
                    /\ \A i \in DOMAIN specs :
                            C29_Of(other.subclusters, specs[i].key)
                                = C29_Of(hierarchy.subclusters, specs[i].key)

\* ------------------------------------------------ posterior: fitted state
\* C30: whenever predict has returned a table, the feature columns and
\* statistics, the store summary, the yield model, the value model and the
\* ECDF reference of the pipeline are those that one completed fit call on
\* the observation log assigns together; and a fit call that raises on a
\* pipeline that an earlier fit call completed on changes none of them.
C30_ProducedBy(st, fc) ==
    LET columns == IF fc = Unset THEN AutoColumns(st) ELSE fc.columns
        features == _prepare_features(st, columns)
        summary == _summarise_observations(observations)
    IN  /\ observations # << >>
        /\ columns \subseteq st.columns
        /\ DOMAIN summary \cap {st.rows[i].StoreId : i \in DOMAIN st.rows} # {}
        /\ feature_columns_ = [none |-> FALSE, columns |-> features.columns]
        /\ feature_stats_ = [none |-> FALSE, stats |-> features.stats]
        /\ store_summary_ = [none |-> FALSE, rows |-> summary]
        /\ yield_model_ = [none |-> FALSE, model |-> fit_yield_model(solution),
                           columns |-> features.columns]
        /\ value_model_ = [none |-> FALSE, model |-> solution.value,
                           columns |-> features.columns]
        /\ ecdf_reference_ = [none |-> FALSE,
                              rows |-> _build_ecdf_reference(observations, window_column)]
C30_OneFit == \E a \in FitArguments : C30_ProducedBy(a[1], a[2])
C30_PredictSucceeded == call.op = "predict" /\ call.raised = NoError
C30_Fitted == ~yield_model_.none /\ ~value_model_.none /\ ~ecdf_reference_.none
C30_FitRaises == call'.op = "fit" /\ call'.raised # NoError
C30_FailedFitKeepsState ==
    (C30_Fitted /\ C30_FitRaises) =>
        UNCHANGED <<feature_columns_, feature_stats_, store_summary_, yield_model_,
                    value_model_, ecdf_reference_>>
C30_Original ==
    /\ [](C30_PredictSucceeded => C30_OneFit)
    /\ [][C30_FailedFitKeepsState]_vars

====
